---- MODULE Spec2Model ----
(***************************************************************************)
(* A model of the e-commerce pipeline: the Cleaner, the Category           *)
(* Classifier, the Relational Transformer and the Idempotent Loader of     *)
(* scripts/data_processing.py, the RFM Scorer, the Segment Assigner, the   *)
(* segment load and perform_rfm_analysis of                                *)
(* scripts/customer_segmentation.py, and the comment removal, the          *)
(* statement splitter and the script executor of scripts/db_utils.py.      *)
(* Each function is checked under a specification of its own; the loader's *)
(* is Spec.                                                                *)
(*                                                                         *)
(* Identifiers (invoice numbers, customer ids, stock codes, countries) are *)
(* small naturals; money is counted in whole units so that sums are exact. *)
(***************************************************************************)
EXTENDS Integers, Sequences, FiniteSets, TLC

(***************************************************************************)
(* Bounds of the model.                                                    *)
(***************************************************************************)
\* longest input table handed to the Transformer
MaxRows == 2
\* longest input table of one load
MaxLoadRows == 2
\* number of loads started in one behaviour
MaxLoads == 2

(***************************************************************************)
(* Missing values.  pd.to_datetime(errors='coerce') turns a timestamp that *)
(* cannot be parsed into NaT; a missing country is NaN.  Neither is        *)
(* removed by clean_online_retail_data, so both reach the Transformer.     *)
(***************************************************************************)
NaT == 0
NaN == 0
\* SQL NULL in a column of the store
NULL == 0

Invoices == 1..2
CustomerIds == 1..2
\* (InvoiceDate, Country) of a row: two timestamps of the same day, a later
\* day, a second country, an unparsable timestamp, a missing country
Stamps == {<<1, 1>>, <<2, 1>>, <<3, 1>>, <<1, 2>>, <<NaT, 1>>, <<1, NaN>>}
\* (StockCode, Quantity, UnitPrice) of a row
Lines == {<<1, 1, 1>>, <<2, 2, 2>>, <<1, 2, 2>>}
\* timestamps are counted in half days
TicksPerDay == 2

(***************************************************************************)
(* A cleaned, categorised row (the frame process_data hands on, lines      *)
(* 380-386): ids present, Quantity > 0, UnitPrice > 0,                     *)
(* TotalPrice = Quantity * UnitPrice (line 64).                            *)
(***************************************************************************)
Row(inv, cust, st, ln) ==
    [InvoiceNo |-> inv, CustomerID |-> cust, InvoiceDate |-> st[1], Country |-> st[2],
     StockCode |-> ln[1], Description |-> "Unknown", Category |-> "Unknown",
     Quantity |-> ln[2], UnitPrice |-> ln[3], TotalPrice |-> ln[2] * ln[3]]

Rows == { Row(i, c, st, ln) : i \in Invoices, c \in CustomerIds, st \in Stamps, ln \in Lines }

SeqsUpTo(S, n) == UNION { [1..k -> S] : k \in 0..n }

(***************************************************************************)
(* The outlier step of the Cleaner (lines 70-80) keeps a row only when     *)
(* UnitPrice < mean + 3*std and Quantity < mean + 3*std.  With fewer than  *)
(* eleven rows no value lies three deviations above the mean, and with a   *)
(* constant column (std = 0, or NaN for a single row) the comparison is    *)
(* false for every row: a table of at most ten rows leaves the Cleaner     *)
(* either empty or with at least two different quantities and prices.      *)
(***************************************************************************)
SurvivesOutlierStep(df) ==
    \/ df = << >>
    \/ /\ \E i, j \in DOMAIN df : df[i].UnitPrice # df[j].UnitPrice
       /\ \E i, j \in DOMAIN df : df[i].Quantity # df[j].Quantity

CleanedFrames(S, n) == { df \in SeqsUpTo(S, n) : SurvivesOutlierStep(df) }

(***************************************************************************)
(* Helpers on frames.                                                      *)
(***************************************************************************)
RECURSIVE SumOver(_, _)
\* sum of f[i] over the index set I
SumOver(f, I) ==
    IF I = {} THEN 0
    ELSE LET i == CHOOSE x \in I : TRUE IN f[i] + SumOver(f, I \ {i})

\* df['TotalPrice'].sum() over the rows whose index is in I
SumTotalPrice(df, I) == SumOver([i \in DOMAIN df |-> df[i].TotalPrice], I)

Min(S) == CHOOSE x \in S : \A y \in S : x <= y
Max(S) == CHOOSE x \in S : \A y \in S : x >= y

\* lexicographic order of group keys (groupby sorts its keys)
RECURSIVE LexLess(_, _)
LexLess(a, b) ==
    IF a = << >> \/ b = << >> THEN FALSE
    ELSE IF a[1] # b[1] THEN a[1] < b[1]
    ELSE LexLess(Tail(a), Tail(b))

RECURSIVE SortKeys(_)
\* the keys of S in ascending order
SortKeys(S) ==
    IF S = {} THEN << >>
    ELSE LET m == CHOOSE x \in S : \A y \in S \ {x} : LexLess(x, y)
         IN <<m>> \o SortKeys(S \ {m})

\* .dt.date: the calendar day of a timestamp; NaT stays NaT
DateOf(ts) == IF ts = NaT THEN NaT ELSE (ts + TicksPerDay - 1) \div TicksPerDay

\* 'P' + StockCode.astype(str)
ProductId(sc) == <<"P", sc>>

(***************************************************************************)
(* transform_to_relational_model (lines 148-207).                          *)
(***************************************************************************)
\* lines 161-175: df.groupby('CustomerID').agg(...), one row per customer id in
\* key order.  'first' takes the first non-null Country, min/max skip NaT.
Customers(df) ==
    LET keys == SortKeys({ <<df[i].CustomerID>> : i \in DOMAIN df })
        rowsOf(c) == { i \in DOMAIN df : df[i].CustomerID = c }
        withCountry(c) == { i \in rowsOf(c) : df[i].Country # NaN }
        dates(c) == { df[i].InvoiceDate : i \in rowsOf(c) } \ {NaT}
    IN [k \in DOMAIN keys |->
          LET c == keys[k][1] IN
          [customer_id |-> c,
           country |-> IF withCountry(c) = {} THEN NaN ELSE df[Min(withCountry(c))].Country,
           first_purchase_date |-> IF dates(c) = {} THEN NaT ELSE DateOf(Min(dates(c))),
           last_purchase_date |-> IF dates(c) = {} THEN NaT ELSE DateOf(Max(dates(c))),
           total_purchases |-> Cardinality({ df[i].InvoiceNo : i \in rowsOf(c) }),
           total_spent |-> SumTotalPrice(df, rowsOf(c))]]

\* lines 178-181: drop_duplicates(subset=['StockCode']) keeps the first row of
\* each stock code, in input order
Products(df) ==
    LET firsts == { i \in DOMAIN df : \A j \in 1..(i - 1) : df[j].StockCode # df[i].StockCode }
        idx == SortKeys({ <<i>> : i \in firsts })
    IN [k \in DOMAIN idx |->
          LET r == df[idx[k][1]] IN
          [product_id |-> ProductId(r.StockCode), description |-> r.Description,
           unit_price |-> r.UnitPrice, category |-> r.Category, stock_code |-> r.StockCode]]

\* the key of a row in df.groupby(['InvoiceNo', 'CustomerID', 'InvoiceDate', 'Country'])
OrderKey(r) == <<r.InvoiceNo, r.CustomerID, r.InvoiceDate, r.Country>>

\* groupby's default dropna=True: a row with a null in any key column belongs to
\* no group
InSomeGroup(r) == r.InvoiceDate # NaT /\ r.Country # NaN

\* lines 184-188: one row per group, in key order, TotalAmount = sum of TotalPrice
Orders(df) ==
    LET keys == SortKeys({ OrderKey(df[i]) : i \in { j \in DOMAIN df : InSomeGroup(df[j]) } })
    IN [k \in DOMAIN keys |->
          [order_id |-> keys[k][1], customer_id |-> keys[k][2],
           order_date |-> keys[k][3], country |-> keys[k][4],
           total_amount |-> SumTotalPrice(df, { i \in DOMAIN df : OrderKey(df[i]) = keys[k] })]]

\* lines 191-194: one order item per input row
OrderItems(df) ==
    [i \in DOMAIN df |->
        [order_id |-> df[i].InvoiceNo, product_id |-> ProductId(df[i].StockCode),
         quantity |-> df[i].Quantity, unit_price |-> df[i].UnitPrice,
         total_price |-> df[i].TotalPrice]]

transform_to_relational_model(df) ==
    [customers |-> Customers(df), products |-> Products(df),
     orders |-> Orders(df), order_items |-> OrderItems(df)]

\* the dictionary before any transform has run
NoData == [customers |-> << >>, products |-> << >>, orders |-> << >>, order_items |-> << >>]

(***************************************************************************)
(* The store.  A keyed table is a function from the stored keys to rows;   *)
(* order_items has no natural key and is a bag of rows; the processing log *)
(* is the sequence of its rows in insertion order.                         *)
(***************************************************************************)
EmptyTable == [k \in {} |-> 0]

EmptyStore ==
    [customers |-> EmptyTable, products |-> EmptyTable, orders |-> EmptyTable,
     order_items |-> EmptyTable, customer_segments |-> EmptyTable,
     data_processing_log |-> << >>]

\* main.py, lines 160-166: run_pipeline's database step commits its own open log
\* row before process_data is called
PipelineRow ==
    [process_name |-> "pipeline_execution", status |-> "STARTED", start_time |-> 0,
     end_time |-> NULL, records_processed |-> NULL]

\* the store when run_pipeline reaches its processing step: the schema just
\* created and the pipeline's own log row
InitialStore == [EmptyStore EXCEPT !.data_processing_log = <<PipelineRow>>]

\* INSERT ... ON CONFLICT (key) DO UPDATE SET <every other column> = EXCLUDED.<column>
Upsert(table, key, row) ==
    [k \in (DOMAIN table) \cup {key} |-> IF k = key THEN row ELSE table[k]]

RECURSIVE UpsertMany(_, _, _)
\* cursor.executemany of an upsert: one statement per row, in order
UpsertMany(table, keyOf, rows) ==
    IF rows = << >> THEN table
    ELSE UpsertMany(Upsert(table, Head(rows)[keyOf], Head(rows)), keyOf, Tail(rows))

\* INSERT INTO order_items: one more copy of the row
InsertItem(bag, row) ==
    [x \in (DOMAIN bag) \cup {row} |->
        IF x = row THEN (IF row \in DOMAIN bag THEN bag[row] + 1 ELSE 1) ELSE bag[x]]

RECURSIVE InsertItems(_, _)
InsertItems(bag, rows) ==
    IF rows = << >> THEN bag ELSE InsertItems(InsertItem(bag, Head(rows)), Tail(rows))

\* the rows of a batch as a bag
BagOfSeq(rows) == InsertItems(EmptyTable, rows)

\* the stored (or batch) items of one order
ItemsOf(bag, oid) == [x \in { y \in DOMAIN bag : y.order_id = oid } |-> bag[x]]

\* a loader that inserts the new items without deleting the stored ones
DeleteNothing(bag, ids) == bag

\* DELETE FROM order_items WHERE order_id = %s / IN %s
DeleteItemsOfOrders(bag, ids) ==
    [x \in { y \in DOMAIN bag : y.order_id \notin ids } |-> bag[x]]

(***************************************************************************)
(* State.                                                                  *)
(***************************************************************************)
VARIABLES
    df,         \* the cleaned, categorised frame of the current run
    data_dict,  \* the Transformer's result for df
    db,         \* the committed content of the store
    tx,         \* the store as the loader's open transaction sees it
    conn,       \* "open" or "closed": the loader's connection
    pc,         \* the statement load_data_to_database executes next
    exc,        \* an exception is propagating out of the try block
    outcome,    \* how the last call ended: "none", "returned" or "raised"
    writes,     \* the statements the current load has executed, in order
    before,     \* the committed store when the current load began
    prevOk,     \* the batch of the successful load before the current one
    nloads,     \* loads begun so far (also the clock of the log)
    raw_df,     \* the raw table handed to clean_online_retail_data
    cleaned,    \* how clean_online_retail_data(raw_df) ended: its rows or its error
    recleaned,  \* how clean_online_retail_data ended on its own result
    description, \* the Description handed to determine_category
    category,   \* the label determine_category returned
    scores,     \* the r, f, m scores of the row handed to assign_segment
    segment,    \* the segment assign_segment returned
    customers_df, \* the customers handed to calculate_rfm_scores
    rfm_df,     \* how calculate_rfm_scores ended: its rows or its error
    sql_content, \* the script text handed to the statement splitter
    statements, \* the statements the splitter emitted, in order
    file_content, \* the text of the script file, comments included
    schema,     \* the statements of the script the store has committed, in order
    pending,    \* the statements executed in the executor's open transaction
    position,   \* the index in statements the executor's loop has reached
    attempted,  \* the statements handed to the database and how each call ended, in order
    warnings,   \* the indexes of the statements logged with a warning, in order
    errors      \* the indexes of the statements logged with an error, in order

\* the state of the functions modelled on their own
stageVars ==
    <<raw_df, cleaned, recleaned, description, category, scores, segment,
      customers_df, rfm_df, sql_content, statements>>

\* the state of execute_sql_file
executorVars ==
    <<file_content, schema, pending, position, attempted, warnings, errors>>

vars ==
    <<df, data_dict, db, tx, conn, pc, exc, outcome, writes, before, prevOk, nloads,
      stageVars, executorVars>>

loaderVars == <<db, tx, conn, exc, outcome, writes, before, prevOk, nloads>>

\* a function that has not been called yet
NotCalled == [rows |-> << >>, error |-> "not called"]

CleanerIdle == raw_df = << >> /\ cleaned = NotCalled /\ recleaned = NotCalled

ClassifierIdle == description = << >> /\ category = ""

SegmentIdle == scores = << >> /\ segment = ""

ScorerIdle == customers_df = << >> /\ rfm_df = NotCalled

SplitterIdle == sql_content = << >> /\ statements = << >>

ExecutorIdle ==
    /\ file_content = << >>
    /\ schema = << >>
    /\ pending = << >>
    /\ position = 0
    /\ attempted = << >>
    /\ warnings = << >>
    /\ errors = << >>

\* the functions modelled on their own are not running
StageIdle ==
    /\ CleanerIdle /\ ClassifierIdle /\ SegmentIdle /\ ScorerIdle /\ SplitterIdle /\ ExecutorIdle
    /\ ExecutorIdle

\* the rows of the frames a load may receive: invoice 1 with the first line,
\* the same with a missing country, invoice 1 with the second line from another
\* country, invoice 2
LoadRowSet ==
    { Row(1, 1, <<1, 1>>, <<1, 1, 1>>), Row(1, 1, <<1, NaN>>, <<1, 1, 1>>),
      Row(1, 1, <<1, 2>>, <<2, 2, 2>>), Row(2, 1, <<1, 1>>, <<2, 2, 2>>) }

\* the frames process_data may hand to the Transformer and the loader
LoadFrames == CleanedFrames(LoadRowSet, MaxLoadRows)

(***************************************************************************)
(* load_data_to_database (lines 234-346), one action per statement.        *)
(***************************************************************************)
\* the statements of the try block, lines 255-336
LoadSteps == {"log", "customers", "products", "orders", "delete", "items", "logupdate", "commit"}

\* a try block that writes the orders before the customers and the products
StepAfterOrdersFirst(step) ==
    CASE step = "log" -> "orders"
      [] step = "orders" -> "customers"
      [] step = "customers" -> "products"
      [] step = "products" -> "delete"
      [] step = "delete" -> "items"
      [] step = "items" -> "logupdate"
      [] step = "logupdate" -> "commit"
      [] step = "commit" -> "finally"

\* the order of the statements in the try block
StepAfter(step) ==
    CASE step = "log" -> "customers"
      [] step = "customers" -> "products"
      [] step = "products" -> "orders"
      [] step = "orders" -> "delete"
      [] step = "delete" -> "items"
      [] step = "items" -> "logupdate"
      [] step = "logupdate" -> "commit"
      [] step = "commit" -> "finally"

\* lines 256-259: INSERT INTO data_processing_log ... 'STARTED'
LogInsert(log, now) ==
    Append(log, [process_name |-> "data_loading", status |-> "STARTED",
                 start_time |-> now, end_time |-> NULL, records_processed |-> NULL])

\* a count that leaves the order items out
RecordsWithoutItems(d) == Len(d.customers) + Len(d.products) + Len(d.orders)

\* line 333: the four lengths added up
RecordsProcessed(d) ==
    Len(d.customers) + Len(d.products) + Len(d.orders) + Len(d.order_items)

\* lines 326-333: UPDATE data_processing_log SET ... WHERE process_name =
\* 'data_loading' AND end_time IS NULL
LogUpdate(log, now, n) ==
    [i \in DOMAIN log |->
        IF log[i].process_name = "data_loading" /\ log[i].end_time = NULL
        THEN [log[i] EXCEPT !.end_time = now, !.records_processed = n, !.status = "COMPLETED"]
        ELSE log[i]]

\* line 307: tuple(data_dict['orders']['order_id'].unique())
OrderIds(d) == { d.orders[i].order_id : i \in DOMAIN d.orders }

\* the rows executemany writes before the first row the store rejects
AcceptedPrefix(rows, bad) ==
    IF bad = {} THEN rows ELSE SubSeq(rows, 1, Min(bad) - 1)

\* foreign keys of the schema: orders.customer_id -> customers
OrderFkOk(t, row) == row.customer_id \in DOMAIN t.customers

\* foreign keys of the schema: order_items.order_id -> orders, product_id -> products
ItemFkOk(t, row) == row.order_id \in DOMAIN t.orders /\ row.product_id \in DOMAIN t.products

\* an except branch that commits what the transaction has written so far
RollbackKeepsWrites(committed, working) == working

\* conn.rollback(): the transaction's writes are discarded
Rollback(committed, working) == committed

\* conn.commit(): the transaction's writes become the committed store
Commit(committed, working) == working

\* process_data, lines 380-393, up to the loader's first statement (lines
\* 245-253): the frame is transformed, a connection and a transaction are opened
ProcessData ==
    /\ pc = "idle"
    /\ nloads < MaxLoads
    /\ \E frame \in LoadFrames :
          /\ df' = frame
          /\ data_dict' = transform_to_relational_model(frame)
    /\ conn' = "open"
    /\ tx' = db
    /\ before' = db
    /\ prevOk' = IF outcome = "returned" THEN <<data_dict>> ELSE prevOk
    /\ outcome' = "none"
    /\ exc' = FALSE
    /\ writes' = << >>
    /\ nloads' = nloads + 1
    /\ pc' = "log"
    /\ UNCHANGED <<db, stageVars, executorVars>>

\* a statement that went through: the next statement of the try block is next
Done(step) ==
    /\ writes' = Append(writes, step)
    /\ pc' = StepAfter(step)
    /\ UNCHANGED <<df, data_dict, db, conn, exc, outcome, before, prevOk, nloads, stageVars, executorVars>>

\* a statement that raised after some of its writes: control goes to line 339
Failed(step) ==
    /\ writes' = Append(writes, step)
    /\ pc' = "except"
    /\ exc' = TRUE
    /\ UNCHANGED <<df, data_dict, db, conn, outcome, before, prevOk, nloads, stageVars, executorVars>>

\* lines 256-259
InsertLog ==
    /\ pc = "log"
    /\ tx' = [tx EXCEPT !.data_processing_log = LogInsert(@, nloads)]
    /\ Done("log")

\* lines 262-275
LoadCustomers ==
    /\ pc = "customers"
    /\ tx' = [tx EXCEPT !.customers = UpsertMany(@, "customer_id", data_dict.customers)]
    /\ Done("customers")

\* lines 278-289
LoadProducts ==
    /\ pc = "products"
    /\ tx' = [tx EXCEPT !.products = UpsertMany(@, "product_id", data_dict.products)]
    /\ Done("products")

\* lines 292-303: the store rejects an order whose customer is not stored
LoadOrders ==
    /\ pc = "orders"
    /\ LET rows == data_dict.orders
           bad == { i \in DOMAIN rows : ~OrderFkOk(tx, rows[i]) }
       IN /\ tx' = [tx EXCEPT !.orders = UpsertMany(@, "order_id", AcceptedPrefix(rows, bad))]
          /\ IF bad = {} THEN Done("orders") ELSE Failed("orders")

\* lines 307-314
DeleteOrderItems ==
    /\ pc = "delete"
    /\ tx' = [tx EXCEPT !.order_items = DeleteItemsOfOrders(@, OrderIds(data_dict))]
    /\ Done("delete")

\* lines 317-323: the store rejects an item whose order or product is not stored
InsertOrderItems ==
    /\ pc = "items"
    /\ LET rows == data_dict.order_items
           bad == { i \in DOMAIN rows : ~ItemFkOk(tx, rows[i]) }
       IN /\ tx' = [tx EXCEPT !.order_items = InsertItems(@, AcceptedPrefix(rows, bad))]
          /\ IF bad = {} THEN Done("items") ELSE Failed("items")

\* lines 326-333
UpdateLog ==
    /\ pc = "logupdate"
    /\ tx' = [tx EXCEPT !.data_processing_log =
                            LogUpdate(@, nloads, RecordsProcessed(data_dict))]
    /\ Done("logupdate")

\* line 336
CommitLoad ==
    /\ pc = "commit"
    /\ db' = Commit(db, tx)
    /\ tx' = tx
    /\ writes' = Append(writes, "commit")
    /\ pc' = StepAfter("commit")
    /\ UNCHANGED <<df, data_dict, conn, exc, outcome, before, prevOk, nloads, stageVars, executorVars>>

\* any statement of the try block may raise (connection lost, statement
\* rejected, commit refused) before it has written anything
StatementRaises ==
    /\ pc \in LoadSteps
    /\ pc' = "except"
    /\ exc' = TRUE
    /\ UNCHANGED <<df, data_dict, db, tx, conn, outcome, writes, before, prevOk, nloads, stageVars, executorVars>>

\* lines 339-342: except Exception: conn.rollback(); raise
Except ==
    /\ pc = "except"
    /\ db' = Rollback(db, tx)
    /\ tx' = db'
    /\ pc' = "finally"
    /\ UNCHANGED <<df, data_dict, conn, exc, outcome, writes, before, prevOk, nloads, stageVars, executorVars>>

\* lines 344-346: cursor.close(); conn.close(); then the call returns, or the
\* exception goes on to the caller of process_data, whose locals are gone
Finally ==
    /\ pc = "finally"
    /\ conn' = "closed"
    /\ outcome' = IF exc THEN "raised" ELSE "returned"
    /\ df' = IF exc THEN << >> ELSE df
    /\ data_dict' = IF exc THEN NoData ELSE data_dict
    /\ writes' = << >>
    /\ pc' = "idle"
    /\ UNCHANGED <<db, tx, exc, before, prevOk, nloads, stageVars, executorVars>>

Init ==
    /\ df = << >>
    /\ data_dict = NoData
    /\ db = InitialStore
    /\ tx = db
    /\ conn = "closed"
    /\ pc = "idle"
    /\ exc = FALSE
    /\ outcome = "none"
    /\ writes = << >>
    /\ before = db
    /\ prevOk = << >>
    /\ nloads = 0
    /\ StageIdle

Next ==
    \/ ProcessData
    \/ InsertLog
    \/ LoadCustomers
    \/ LoadProducts
    \/ LoadOrders
    \/ DeleteOrderItems
    \/ InsertOrderItems
    \/ UpdateLog
    \/ CommitLoad
    \/ StatementRaises
    \/ Except
    \/ Finally

Spec == Init /\ [][Next]_vars

(***************************************************************************)
(* The Transformer on its own: any cleaned frame, transformed once.        *)
(***************************************************************************)
InitTransform ==
    /\ df \in CleanedFrames(Rows, MaxRows)
    /\ data_dict = NoData
    /\ db = EmptyStore
    /\ tx = EmptyStore
    /\ conn = "closed"
    /\ pc = "cleaned"
    /\ exc = FALSE
    /\ outcome = "none"
    /\ writes = << >>
    /\ before = EmptyStore
    /\ prevOk = << >>
    /\ nloads = 0
    /\ StageIdle

\* process_data, line 386
Transform ==
    /\ pc = "cleaned"
    /\ data_dict' = transform_to_relational_model(df)
    /\ pc' = "transformed"
    /\ UNCHANGED <<df, loaderVars, stageVars, executorVars>>

NextTransform == Transform

SpecTransform == InitTransform /\ [][NextTransform]_vars

(***************************************************************************)
(* Properties of the loader, checked under Spec.                           *)
(***************************************************************************)
\* the four entity tables of a store
EntityTables(s) == <<s.customers, s.products, s.orders, s.order_items>>

\* the rollback of a failed load has run
RolledBack == exc /\ pc \in {"finally", "idle"}

\* C1: if a step of load_data_to_database raises, then once the except branch
\* has run the committed customers, products, orders and order_items are exactly
\* those of the moment the load began, and the call ends by raising.
C1_LoaderAtomicity ==
    /\ RolledBack => EntityTables(db) = EntityTables(before)
    /\ (exc /\ pc = "idle") => outcome = "raised"
    /\ outcome = "raised" => EntityTables(db) = EntityTables(before)

\* a load failed after it had written customers, products and orders over a
\* store that already held orders
C1_Witness ==
    /\ pc = "finally" /\ exc
    /\ \E i \in DOMAIN writes : writes[i] = "orders"
    /\ before.orders # EmptyTable
    /\ data_dict.orders # << >>

\* C2: after a load that fails, the committed data_processing_log holds the
\* entry this load opened, with status STARTED and no end_time.
C2_FailedLoadLeavesStartedRow ==
    (RolledBack /\ pc = "finally" /\ \E i \in DOMAIN writes : writes[i] = "log")
        => \E i \in DOMAIN db.data_processing_log :
              /\ db.data_processing_log[i].process_name = "data_loading"
              /\ db.data_processing_log[i].status = "STARTED"
              /\ db.data_processing_log[i].end_time = NULL
              /\ db.data_processing_log[i].start_time = nloads

\* a successful load of the batch that the successful load before it had loaded
SecondIdenticalLoad == pc = "idle" /\ outcome = "returned" /\ prevOk = <<data_dict>>

\* C3: a second successful load of the same batch leaves customers, products and
\* orders as the first load left them, and for every order of the batch
\* order_items holds exactly the batch's items of that order.
C3_LoaderIdempotence ==
    SecondIdenticalLoad =>
        /\ db.customers = before.customers
        /\ db.products = before.products
        /\ db.orders = before.orders
        /\ \A oid \in OrderIds(data_dict) :
              ItemsOf(db.order_items, oid) = ItemsOf(BagOfSeq(data_dict.order_items), oid)

C3_Witness == SecondIdenticalLoad /\ Len(data_dict.orders) >= 2 /\ db.order_items # EmptyTable

\* the entity statements of the current load came in the order customers and
\* products, then orders, then order items
WriteOrderOk ==
    \A j \in DOMAIN writes :
        /\ writes[j] = "orders" =>
              /\ \E i \in 1..(j - 1) : writes[i] = "customers"
              /\ \E i \in 1..(j - 1) : writes[i] = "products"
        /\ writes[j] \in {"delete", "items"} => \E i \in 1..(j - 1) : writes[i] = "orders"

\* every order of s references a stored customer, every item a stored order
\* and a stored product
References(s) ==
    /\ \A o \in DOMAIN s.orders : s.orders[o].customer_id \in DOMAIN s.customers
    /\ \A x \in DOMAIN s.order_items :
          x.order_id \in DOMAIN s.orders /\ x.product_id \in DOMAIN s.products

\* C4: within a load, customers and products are written before orders and
\* orders before the order-item delete and insert, and at every intermediate
\* point the transaction's orders reference stored customers and its order items
\* reference stored orders and products.
C4_WriteOrder ==
    pc \in LoadSteps \cup {"except"} => WriteOrderOk /\ References(tx)

\* a load has written orders and order items of its batch
C4_Witness ==
    /\ pc = "logupdate"
    /\ data_dict.orders # << >>
    /\ \E x \in DOMAIN tx.order_items : x.order_id \in OrderIds(data_dict)

\* C5: after a successful load, for every order_id that has items in the batch,
\* the stored items of that order are exactly the batch's items of it.
C5_ItemsReplaced ==
    (pc = "idle" /\ outcome = "returned") =>
        \A oid \in { data_dict.order_items[i].order_id : i \in DOMAIN data_dict.order_items } :
            ItemsOf(db.order_items, oid) = ItemsOf(BagOfSeq(data_dict.order_items), oid)

\* the log row a load opens, and the row a successful load leaves
StartedRow(now) ==
    [process_name |-> "data_loading", status |-> "STARTED", start_time |-> now,
     end_time |-> NULL, records_processed |-> NULL]

CompletedRow(now, n) ==
    [process_name |-> "data_loading", status |-> "COMPLETED", start_time |-> now,
     end_time |-> now, records_processed |-> n]

\* C6: a load opens one STARTED log entry before any entity write; the entry is
\* closed after all entity writes; a successful load leaves it COMPLETED, with an
\* end_time and records_processed = customers + products + orders + order items
\* of the batch.
C6_ProcessingLog ==
    /\ pc = "log" => tx = before
    /\ (pc \in LoadSteps \ {"log", "commit"}) =>
          tx.data_processing_log = Append(before.data_processing_log, StartedRow(nloads))
    /\ (\E j \in DOMAIN writes : writes[j] = "logupdate") =>
          SubSeq(writes, 1, 7) =
              <<"log", "customers", "products", "orders", "delete", "items", "logupdate">>
    /\ (pc = "idle" /\ outcome = "returned") =>
          /\ db.data_processing_log =
                Append(before.data_processing_log,
                       CompletedRow(nloads, Len(data_dict.customers) + Len(data_dict.products)
                                            + Len(data_dict.orders) + Len(data_dict.order_items)))
          /\ db.data_processing_log[Len(db.data_processing_log)].end_time # NULL

\* a second successful load has closed its log entry over a batch with orders
C6_Witness ==
    /\ pc = "idle" /\ outcome = "returned"
    /\ db.data_processing_log[1] = PipelineRow
    /\ Len(db.data_processing_log) = 3
    /\ data_dict.order_items # << >>

(***************************************************************************)
(* Properties of the Transformer, checked under SpecTransform.             *)
(***************************************************************************)
\* sum of total_price over the order items of the pass with this order_id
ItemsTotal(d, oid) ==
    SumOver([i \in DOMAIN d.order_items |-> d.order_items[i].total_price],
            { i \in DOMAIN d.order_items : d.order_items[i].order_id = oid })

\* sum of total_amount over the orders of the pass with this customer_id
OrdersTotal(d, cid) ==
    SumOver([i \in DOMAIN d.orders |-> d.orders[i].total_amount],
            { i \in DOMAIN d.orders : d.orders[i].customer_id = cid })

\* C7: every Order's total_amount equals the sum of total_price over the
\* OrderItems of the same pass with its order_id.
C7_OrderTotalIsItemsTotal ==
    pc = "transformed" =>
        \A k \in DOMAIN data_dict.orders :
            data_dict.orders[k].total_amount = ItemsTotal(data_dict, data_dict.orders[k].order_id)

\* C8: the Transformer emits one Order row per distinct invoice id of its
\* input: order_id is a unique key of the orders, no two Order rows share it.
\* (That every invoice has an Order at all is part of C9.)
C8_OneOrderPerInvoice ==
    pc = "transformed" =>
        \A i, j \in DOMAIN data_dict.orders :
            data_dict.orders[i].order_id = data_dict.orders[j].order_id => i = j

\* C9: every OrderItem's order_id is that of an Order of the same output and its
\* product_id that of a Product of the same output; every Order's customer_id
\* is that of a Customer of the same output.
C9_ReferentialIntegrity ==
    pc = "transformed" =>
        /\ \A i \in DOMAIN data_dict.order_items :
              /\ data_dict.order_items[i].order_id \in OrderIds(data_dict)
              /\ \E k \in DOMAIN data_dict.products :
                    data_dict.products[k].product_id = data_dict.order_items[i].product_id
        /\ \A i \in DOMAIN data_dict.orders :
              \E k \in DOMAIN data_dict.customers :
                  data_dict.customers[k].customer_id = data_dict.orders[i].customer_id

\* C10: every Customer's total_spent equals the sum of total_amount over the
\* Orders of the same pass with its customer_id.
C10_CustomerTotalIsOrdersTotal ==
    pc = "transformed" =>
        \A k \in DOMAIN data_dict.customers :
            data_dict.customers[k].total_spent
                = OrdersTotal(data_dict, data_dict.customers[k].customer_id)

(***************************************************************************)
(* The Cleaner, clean_online_retail_data (data_processing.py, lines 17-89).*)
(* A cell of a raw table is [kind, v]: a text ("str"), a number read as a  *)
(* float ("float"), a parsed timestamp ("datetime"), NaT ("nat") or a      *)
(* missing value ("nan"); v is the sequence of its characters or digits.   *)
(* Quantity and UnitPrice are integers (prices are counted in pence).      *)
(***************************************************************************)
\* longest raw table handed to the Cleaner
MaxRawRows == 11
\* rows of a raw table that steps (a)-(c) remove
MaxInvalidRows == 1
\* lines 78-79: the number of standard deviations above the mean
Sigmas == 3

Text(v) == [kind |-> "str", v |-> v]
Float(n) == [kind |-> "float", v |-> <<n>>]
Missing == [kind |-> "nan", v |-> << >>]
NaTCell == [kind |-> "nat", v |-> << >>]

\* a row of the raw table with its eight columns
RawRow(inv, stock, desc, q, p, date, cust, country) ==
    [InvoiceNo |-> inv, StockCode |-> stock, Description |-> desc, Quantity |-> q,
     UnitPrice |-> p, InvoiceDate |-> date, CustomerID |-> cust, Country |-> country]

\* the rows a raw table is made of: an ordinary line; a second line with no
\* description and a timestamp that does not parse (the text <<0>>); a line of
\* forty units; a line at forty times the price; then the rows steps (a)-(c)
\* remove: no customer, no invoice number, a cancellation, a return (negative
\* quantity), a free item (price 0)
RawKinds ==
    << RawRow(Text(<<"5", "1">>), 1, Text(<<"b", "o", "x">>), 1, 1, Text(<<1>>), Float(1), 1),
       RawRow(Text(<<"5", "2">>), 2, Missing, 2, 2, Text(<<0>>), Float(2), 1),
       RawRow(Text(<<"5", "1">>), 1, Text(<<"b", "o", "x">>), 40, 1, Text(<<1>>), Float(1), 1),
       RawRow(Text(<<"5", "2">>), 3, Text(<<"c", "u", "p">>), 1, 40, Text(<<2>>), Float(2), 1),
       RawRow(Text(<<"5", "3">>), 1, Text(<<"b", "o", "x">>), 1, 1, Text(<<1>>), Missing, 1),
       RawRow(Missing, 1, Text(<<"b", "o", "x">>), 1, 1, Text(<<1>>), Float(1), 1),
       RawRow(Text(<<"C", "5", "1">>), 1, Text(<<"b", "o", "x">>), 1, 1, Text(<<1>>), Float(1), 1),
       RawRow(Text(<<"5", "4">>), 1, Text(<<"b", "o", "x">>), -1, 1, Text(<<1>>), Float(1), 1),
       RawRow(Text(<<"5", "4">>), 2, Text(<<"c", "u", "p">>), 1, 0, Text(<<1>>), Float(1), 1) >>

\* line 38: pd.to_datetime(errors='coerce'); a timestamp stays what it is
to_datetime(c) ==
    IF c.kind \in {"datetime", "nat"} THEN c
    ELSE IF c.kind = "str" /\ c.v # <<0>> THEN [kind |-> "datetime", v |-> c.v]
    ELSE NaTCell

\* a conversion that writes the float suffix again on every call
astype_str_again(c) == Text(c.v \o <<".0">>)

\* lines 47, 53: astype(str); a float is written with its ".0", a text stays
astype_str(c) == IF c.kind = "float" THEN Text(c.v \o <<".0">>) ELSE Text(c.v)

\* str.startswith
startswith(c, ch) == c.v # << >> /\ c.v[1] = ch

\* lines 37-38
ParseDates(d) == [i \in DOMAIN d |-> [d[i] EXCEPT !.InvoiceDate = to_datetime(@)]]

\* lines 44-47, step (a): dropna(subset=['CustomerID']), then astype(str)
DropMissingCustomer(d) ==
    LET kept == SelectSeq(d, LAMBDA r : r.CustomerID.kind # "nan")
    IN  [i \in DOMAIN kept |-> [kept[i] EXCEPT !.CustomerID = astype_str(@)]]

\* lines 50-57, step (b): dropna(subset=['InvoiceNo']), astype(str), then the
\* invoices starting with 'C' go
DropMissingOrCancelled(d) ==
    LET kept == SelectSeq(d, LAMBDA r : r.InvoiceNo.kind # "nan")
        strs == [i \in DOMAIN kept |-> [kept[i] EXCEPT !.InvoiceNo = astype_str(@)]]
    IN  SelectSeq(strs, LAMBDA r : ~startswith(r.InvoiceNo, "C"))

\* a filter that lets free items and empty lines through
NonNegativeOnly(d) == SelectSeq(d, LAMBDA r : r.Quantity >= 0 /\ r.UnitPrice >= 0)

\* line 61, step (c)
PositiveOnly(d) == SelectSeq(d, LAMBDA r : r.Quantity > 0 /\ r.UnitPrice > 0)

\* line 64, step (d): the row with its TotalPrice column
WithTotalPrice(r) ==
    [InvoiceNo |-> r.InvoiceNo, StockCode |-> r.StockCode, Description |-> r.Description,
     Quantity |-> r.Quantity, UnitPrice |-> r.UnitPrice, InvoiceDate |-> r.InvoiceDate,
     CustomerID |-> r.CustomerID, Country |-> r.Country,
     TotalPrice |-> r.Quantity * r.UnitPrice]

\* lines 67-68, step (e): fillna('Unknown')
FillDescription(r) ==
    IF r.Description.kind = "nan"
    THEN [r EXCEPT !.Description = Text(<<"U", "n", "k", "n", "o", "w", "n">>)]
    ELSE r

\* the table when the outlier step begins (lines 37-68)
BeforeOutlierStep(d) ==
    LET kept == PositiveOnly(DropMissingOrCancelled(DropMissingCustomer(ParseDates(d))))
    IN  [i \in DOMAIN kept |-> FillDescription(WithTotalPrice(kept[i]))]

\* a column of the table
Column(d, name) == [i \in DOMAIN d |-> d[i][name]]

\* Series.sum()
Sum(xs) == SumOver(xs, DOMAIN xs)

\* the sum of the squares of a column
SumOfSquares(xs) == SumOver([i \in DOMAIN xs |-> xs[i] * xs[i]], DOMAIN xs)

\* lines 72-79: x < xs.mean() + 3 * xs.std(), with std the sample deviation
\* (ddof = 1).  With n values of sum S and sum of squares Q, n*n*(n-1)*std^2
\* is n*(n*Q - S*S), so for n >= 2 the comparison is
\* n*x - S < 0  or  (n*x - S)^2 * (n-1) < 9 * n * (n*Q - S*S).
\* For one value std is NaN (and so is the mean of no value) and every
\* comparison with NaN is false.
BelowThreshold(x, xs) ==
    LET n == Len(xs)
        a == n * x - Sum(xs)
        D == n * SumOfSquares(xs) - Sum(xs) * Sum(xs)
    IN  /\ n >= 2
        /\ \/ a < 0
           \/ a * a * (n - 1) < Sigmas * Sigmas * n * D

\* the rows of d below both thresholds, the thresholds taken over the table ref
KeepBelowThresholds(d, ref) ==
    LET prices == Column(ref, "UnitPrice")
        quantities == Column(ref, "Quantity")
    IN  SelectSeq(d, LAMBDA r : /\ BelowThreshold(r.UnitPrice, prices)
                                /\ BelowThreshold(r.Quantity, quantities))

\* an outlier step that runs a second pass on what the first pass kept
RemoveOutliersTwice(d) ==
    LET once == KeepBelowThresholds(d, d) IN KeepBelowThresholds(once, once)

\* lines 71-80, step (f): mean and std are taken once, over the whole table
RemoveOutliers(d) == KeepBelowThresholds(d, d)

\* lines 17-89.  Line 86 divides by initial_rows = len(df) to log the share of
\* removed rows: with no input row it raises ZeroDivisionError and nothing is
\* returned
clean_online_retail_data(d) ==
    IF Len(d) = 0
    THEN [rows |-> << >>, error |-> "ZeroDivisionError"]
    ELSE [rows |-> RemoveOutliers(BeforeOutlierStep(d)), error |-> "none"]

\* the rows of a raw table that steps (a)-(c) remove
InvalidRows(d) == Len(d) - Len(BeforeOutlierStep(d))

InitClean ==
    /\ pc = "raw"
    /\ df = << >>
    /\ data_dict = NoData
    /\ db = EmptyStore
    /\ tx = EmptyStore
    /\ conn = "closed"
    /\ exc = FALSE
    /\ outcome = "none"
    /\ writes = << >>
    /\ before = EmptyStore
    /\ prevOk = << >>
    /\ nloads = 0
    /\ StageIdle

\* one more row of the raw table; the rows come in the order of RawKinds
\* (the Cleaner filters row by row and its statistics do not depend on the order)
AddRawRow ==
    /\ pc = "raw"
    /\ Len(raw_df) < MaxRawRows
    /\ \E k \in DOMAIN RawKinds :
          /\ raw_df # << >> => \E j \in 1..k : raw_df[Len(raw_df)] = RawKinds[j]
          /\ InvalidRows(Append(raw_df, RawKinds[k])) <= MaxInvalidRows
          /\ raw_df' = Append(raw_df, RawKinds[k])
    /\ UNCHANGED <<df, data_dict, pc, loaderVars, cleaned, recleaned, description,
                   category, scores, segment, customers_df, rfm_df, sql_content,
                   statements, executorVars>>

\* process_data, line 380: df_clean = clean_online_retail_data(df)
Clean ==
    /\ pc = "raw"
    /\ cleaned' = clean_online_retail_data(raw_df)
    /\ pc' = "cleaned_once"
    /\ UNCHANGED <<df, data_dict, loaderVars, raw_df, recleaned, description,
                   category, scores, segment, customers_df, rfm_df, sql_content,
                   statements, executorVars>>

\* the Cleaner called on the table it returned
CleanAgain ==
    /\ pc = "cleaned_once"
    /\ cleaned.error = "none"
    /\ recleaned' = clean_online_retail_data(cleaned.rows)
    /\ pc' = "cleaned_twice"
    /\ UNCHANGED <<df, data_dict, loaderVars, raw_df, cleaned, description,
                   category, scores, segment, customers_df, rfm_df, sql_content,
                   statements, executorVars>>

NextClean == AddRawRow \/ Clean \/ CleanAgain

SpecClean == InitClean /\ [][NextClean]_vars


(***************************************************************************)
(* Properties of the Cleaner, checked under SpecClean.                     *)
(***************************************************************************)
\* C11: every row the Cleaner returns has a customer id and an invoice id,
\* an invoice id that does not begin with 'C', Quantity > 0, UnitPrice > 0
\* and TotalPrice exactly Quantity * UnitPrice.
C11_ReturnedRowsAreValid ==
    \A i \in DOMAIN cleaned.rows :
        LET r == cleaned.rows[i]
        IN  /\ r.CustomerID.kind = "str"
            /\ r.InvoiceNo.kind = "str"
            /\ r.InvoiceNo.v # << >> => r.InvoiceNo.v[1] # "C"
            /\ r.Quantity > 0
            /\ r.UnitPrice > 0
            /\ r.TotalPrice = r.Quantity * r.UnitPrice

\* rows were returned from a raw table of which steps (a)-(c) removed a row
C11_Witness ==
    /\ pc = "cleaned_once"
    /\ cleaned.rows # << >>
    /\ InvalidRows(raw_df) > 0

\* C12 (as stated): cleaning is idempotent; for a raw table D whose cleaning
\* leaves rows, cleaning clean(D) again returns exactly the rows of clean(D).
C12_CleaningIsIdempotent ==
    (pc = "cleaned_twice" /\ cleaned.rows # << >>) =>
        /\ recleaned.error = "none"
        /\ recleaned.rows = cleaned.rows

\* s is t with some of its rows left out
RECURSIVE IsSubSeq(_, _)
IsSubSeq(s, t) ==
    IF s = << >> THEN TRUE
    ELSE IF t = << >> THEN FALSE
    ELSE IF Head(s) = Head(t) THEN IsSubSeq(Tail(s), Tail(t))
    ELSE IsSubSeq(s, Tail(t))

\* C12 (amended): steps (a)-(e) are idempotent and the outlier step is not;
\* on clean(D) the steps before the outlier step remove no row and change no
\* value, and when the second call returns, its rows are rows of clean(D) in
\* the same order, possibly fewer because the statistics are taken again.
C12_RecleaningOnlyRemovesOutliers ==
    pc = "cleaned_twice" =>
        /\ BeforeOutlierStep(cleaned.rows) = cleaned.rows
        /\ recleaned.error = "none" => IsSubSeq(recleaned.rows, cleaned.rows)

\* the second cleaning returned fewer rows than the first
C12_Witness ==
    /\ pc = "cleaned_twice"
    /\ recleaned.error = "none"
    /\ Len(recleaned.rows) < Len(cleaned.rows)

\* x >= mean + 3 * std over the n >= 2 values xs, in the integers:
\* n*x - S >= 0  and  (n*x - S)^2 * (n-1) >= 9 * n * (n*Q - S*S)
AtOrAboveThreshold(x, xs) ==
    LET n == Len(xs)
        a == n * x - Sum(xs)
        D == n * SumOfSquares(xs) - Sum(xs) * Sum(xs)
    IN  a >= 0 /\ a * a * (n - 1) >= 3 * 3 * n * D

\* C13: the outlier removal is a single pass; among the rows that survive
\* steps (a)-(c) (two or more, so that the deviation is defined), a row is
\* dropped exactly when its UnitPrice >= mean + 3*std or its
\* Quantity >= mean + 3*std, the mean and std taken once over all survivors.
C13_SinglePassOutlierRule ==
    (pc = "cleaned_once" /\ cleaned.error = "none") =>
        LET S == BeforeOutlierStep(raw_df)
            prices == Column(S, "UnitPrice")
            quantities == Column(S, "Quantity")
        IN  Len(S) >= 2 =>
               cleaned.rows =
                   SelectSeq(S, LAMBDA r : ~ \/ AtOrAboveThreshold(r.UnitPrice, prices)
                                             \/ AtOrAboveThreshold(r.Quantity, quantities))

\* the outlier step dropped some of the survivors and kept others
C13_Witness ==
    /\ pc = "cleaned_once"
    /\ cleaned.rows # << >>
    /\ Len(cleaned.rows) < Len(BeforeOutlierStep(raw_df))

\* C14: when no row remains after steps (a)-(c), the input having no rows
\* included, the Cleaner does not fail and returns the empty table.
C14_NothingLeftReturnsEmpty ==
    (pc = "cleaned_once" /\ BeforeOutlierStep(raw_df) = << >>) =>
        cleaned = [rows |-> << >>, error |-> "none"]

\* C28: when exactly one row survives steps (a)-(c), the outlier step keeps
\* it: the Cleaner returns that row.
C28_SingleSurvivorIsKept ==
    (pc = "cleaned_once" /\ Len(BeforeOutlierStep(raw_df)) = 1) =>
        cleaned = [rows |-> BeforeOutlierStep(raw_df), error |-> "none"]


(***************************************************************************)
(* The Category Classifier, determine_category in                         *)
(* extract_product_categories (data_processing.py, lines 106-131).  A text *)
(* is the sequence of its characters; a regular expression made of        *)
(* alternatives only is the sequence of its alternatives.                 *)
(***************************************************************************)
\* most words of a description
MaxWords == 3

UpperCase ==
    <<"A", "B", "C", "D", "E", "F", "G", "H", "I", "J", "K", "L", "M",
      "N", "O", "P", "Q", "R", "S", "T", "U", "V", "W", "X", "Y", "Z">>

LowerCase ==
    <<"a", "b", "c", "d", "e", "f", "g", "h", "i", "j", "k", "l", "m",
      "n", "o", "p", "q", "r", "s", "t", "u", "v", "w", "x", "y", "z">>

\* line 125: str(desc).lower()
lower(s) ==
    [i \in DOMAIN s |->
        IF \E k \in DOMAIN UpperCase : UpperCase[k] = s[i]
        THEN LowerCase[CHOOSE k \in DOMAIN UpperCase : UpperCase[k] = s[i]]
        ELSE s[i]]

\* the text k occurs somewhere in the text s
Contains(s, k) ==
    \E i \in 1..(Len(s) - Len(k) + 1) : SubSeq(s, i, i + Len(k) - 1) = k

\* line 128: re.search of an alternation of plain words
re_search(pattern, s) == \E k \in DOMAIN pattern : Contains(s, pattern[k])

\* lines 107-118, in the order of the dictionary
category_patterns ==
    << [category |-> "Gift", pattern |->
          <<<<"g", "i", "f", "t">>,
            <<"s", "e", "t">>,
            <<"b", "o", "x">>,
            <<"c", "h", "r", "i", "s", "t", "m", "a", "s">>,
            <<"h", "o", "l", "i", "d", "a", "y">>>>],
       [category |-> "Kitchen", pattern |->
          <<<<"k", "i", "t", "c", "h", "e", "n">>,
            <<"c", "o", "o", "k">>,
            <<"b", "a", "k", "e">>,
            <<"s", "p", "o", "o", "n">>,
            <<"f", "o", "r", "k">>,
            <<"k", "n", "i", "f", "e">>,
            <<"p", "l", "a", "t", "e">>,
            <<"c", "u", "p">>,
            <<"k", "e", "t", "t", "l", "e">>,
            <<"j", "a", "r">>,
            <<"b", "o", "t", "t", "l", "e">>>>],
       [category |-> "Garden", pattern |->
          <<<<"g", "a", "r", "d", "e", "n">>,
            <<"o", "u", "t", "d", "o", "o", "r">>,
            <<"p", "l", "a", "n", "t">>,
            <<"f", "l", "o", "w", "e", "r">>,
            <<"s", "e", "e", "d">>>>],
       [category |-> "Decoration", pattern |->
          <<<<"d", "e", "c", "o", "r">>,
            <<"d", "e", "c", "o", "r", "a", "t", "i", "o", "n">>,
            <<"o", "r", "n", "a", "m", "e", "n", "t">>,
            <<"c", "a", "n", "d", "l", "e">>,
            <<"f", "r", "a", "m", "e">>,
            <<"s", "i", "g", "n">>,
            <<"h", "o", "l", "d", "e", "r">>>>],
       [category |-> "Storage", pattern |->
          <<<<"b", "o", "x">>,
            <<"b", "a", "g">>,
            <<"s", "t", "o", "r", "a", "g", "e">>,
            <<"b", "a", "s", "k", "e", "t">>,
            <<"t", "i", "n">>,
            <<"c", "a", "s", "e">>>>],
       [category |-> "Bathroom", pattern |->
          <<<<"b", "a", "t", "h">>,
            <<"s", "h", "o", "w", "e", "r">>,
            <<"s", "o", "a", "p">>,
            <<"t", "o", "w", "e", "l">>>>],
       [category |-> "Clothing", pattern |->
          <<<<"b", "a", "g">>,
            <<"h", "a", "t">>,
            <<"s", "c", "a", "r", "f">>,
            <<"s", "h", "i", "r", "t">>,
            <<"c", "l", "o", "t", "h">>>>],
       [category |-> "Toys", pattern |->
          <<<<"t", "o", "y">>,
            <<"g", "a", "m", "e">>,
            <<"p", "l", "a", "y">>,
            <<"p", "u", "z", "z", "l", "e">>>>],
       [category |-> "Stationery", pattern |->
          <<<<"p", "a", "p", "e", "r">>,
            <<"c", "a", "r", "d">>,
            <<"p", "e", "n">>,
            <<"p", "e", "n", "c", "i", "l">>,
            <<"t", "a", "p", "e">>,
            <<"n", "o", "t", "e", "b", "o", "o", "k">>>>],
       [category |-> "Food", pattern |->
          <<<<"c", "o", "f", "f", "e", "e">>,
            <<"t", "e", "a">>,
            <<"c", "h", "o", "c", "o", "l", "a", "t", "e">>,
            <<"c", "a", "k", "e">>,
            <<"f", "o", "o", "d">>,
            <<"d", "r", "i", "n", "k">>>>] >>

\* the text 'Unknown' that fillna writes and determine_category tests
UnknownText == <<"U", "n", "k", "n", "o", "w", "n">>

\* a classifier that lets the last matching pattern of the dictionary win
determine_category_last(desc) ==
    IF desc.kind = "nan" \/ desc.v = UnknownText THEN "Unknown"
    ELSE LET desc_lower == lower(desc.v)
             hits == { i \in DOMAIN category_patterns :
                          re_search(category_patterns[i].pattern, desc_lower) }
         IN  IF hits = {} THEN "Other" ELSE category_patterns[Max(hits)].category

\* lines 121-131
determine_category(desc) ==
    IF desc.kind = "nan" \/ desc.v = UnknownText THEN "Unknown"
    ELSE LET desc_lower == lower(desc.v)
             hits == { i \in DOMAIN category_patterns :
                          re_search(category_patterns[i].pattern, desc_lower) }
         IN  IF hits = {} THEN "Other" ELSE category_patterns[Min(hits)].category

\* the words descriptions are made of
Words ==
    { <<"K", "i", "t", "c", "h", "e", "n">>,
      <<"g", "i", "f", "t">>,
      <<"b", "o", "x">>,
      <<"B", "A", "G">>,
      <<"S", "U", "N", "S", "E", "T">>,
      <<"l", "a", "m", "p">>,
      <<"U", "n", "k", "n", "o", "w", "n">>,
      <<"h", "a", "t">>,
      <<"p", "l", "a", "n", "t">>,
      <<"T", "O", "Y">>,
      <<"c", "a", "n", "d", "l", "e">>,
      <<"t", "o", "w", "e", "l">>,
      <<"p", "e", "n", "c", "i", "l">>,
      <<"s", "t", "e", "a", "m">> }

RECURSIVE Join(_)
\* the words of ws with a blank between them
Join(ws) ==
    IF ws = << >> THEN << >>
    ELSE IF Len(ws) = 1 THEN ws[1]
    ELSE ws[1] \o <<" ">> \o Join(Tail(ws))

\* a missing description, or up to MaxWords words
Descriptions == {Missing} \cup { Text(Join(ws)) : ws \in SeqsUpTo(Words, MaxWords) }

InitClassify ==
    /\ pc = "described"
    /\ df = << >>
    /\ data_dict = NoData
    /\ db = EmptyStore
    /\ tx = EmptyStore
    /\ conn = "closed"
    /\ exc = FALSE
    /\ outcome = "none"
    /\ writes = << >>
    /\ before = EmptyStore
    /\ prevOk = << >>
    /\ nloads = 0
    /\ CleanerIdle /\ SegmentIdle /\ ScorerIdle /\ SplitterIdle /\ ExecutorIdle
    /\ description \in Descriptions
    /\ category = ""

\* line 135: df['Description'].apply(determine_category), one description
Classify ==
    /\ pc = "described"
    /\ category' = determine_category(description)
    /\ pc' = "classified"
    /\ UNCHANGED <<df, data_dict, loaderVars, raw_df, cleaned, recleaned, description,
                   scores, segment, customers_df, rfm_df, sql_content, statements, executorVars>>

NextClassify == Classify

SpecClassify == InitClassify /\ [][NextClassify]_vars

(***************************************************************************)
(* Properties of the Category Classifier, checked under SpecClassify.      *)
(***************************************************************************)
\* the categories in their canonical order
CanonicalOrder ==
    <<"Gift", "Kitchen", "Garden", "Decoration", "Storage", "Bathroom", "Clothing",
      "Toys", "Stationery", "Food">>

\* the pattern of a category
PatternOf(cat) ==
    category_patterns[CHOOSE i \in DOMAIN category_patterns :
                          category_patterns[i].category = cat].pattern

\* the pattern of the n-th category matches the lower-cased description
MatchesNth(n) == re_search(PatternOf(CanonicalOrder[n]), lower(description.v))

\* C15: the classifier returns one label: 'Unknown' for a missing description
\* or the text 'Unknown'; otherwise the first category of the canonical order
\* whose pattern matches the lower-cased description, and 'Other' when none
\* matches; 'Kitchen gift box' is a Gift.
C15_FirstMatchingCategory ==
    pc = "classified" =>
        /\ (description.kind = "nan" \/ description.v = UnknownText) => category = "Unknown"
        /\ (description.kind # "nan" /\ description.v # UnknownText) =>
              \/ /\ category = "Other"
                 /\ \A n \in DOMAIN CanonicalOrder : ~MatchesNth(n)
              \/ \E n \in DOMAIN CanonicalOrder :
                    /\ category = CanonicalOrder[n]
                    /\ MatchesNth(n)
                    /\ \A k \in 1..(n - 1) : ~MatchesNth(k)
        /\ description = Text(<<"K", "i", "t", "c", "h", "e", "n", " ", "g", "i", "f", "t", " ", "b", "o", "x">>) => category = "Gift"

\* 'Kitchen gift box', which matches Gift, Kitchen and Storage, was classified
C15_Witness ==
    /\ pc = "classified"
    /\ description = Text(<<"K", "i", "t", "c", "h", "e", "n", " ", "g", "i", "f", "t", " ", "b", "o", "x">>)
    /\ category = "Gift"


(***************************************************************************)
(* The Segment Assigner, assign_segment in calculate_rfm_scores            *)
(* (customer_segmentation.py, lines 77-100).                               *)
(***************************************************************************)
\* the values of a score
ScoreRange == 1..5

\* a row that adds up recency and frequency only
ScoredRowWithoutMonetary(r, f, m) ==
    [recency_score |-> r, frequency_score |-> f, monetary_score |-> m,
     rfm_score |-> r + f]

\* line 75: rfm_score = recency_score + frequency_score + monetary_score
ScoredRow(r, f, m) ==
    [recency_score |-> r, frequency_score |-> f, monetary_score |-> m,
     rfm_score |-> r + f + m]

\* a decision list that asks for loyal customers before champions
assign_segment_loyal_first(row) ==
    LET r == row.recency_score
        f == row.frequency_score
        m == row.monetary_score
        rfm == row.rfm_score
    IN  IF r >= 4 /\ (f >= 4 \/ m >= 4) THEN "Loyal Customers"
        ELSE IF rfm >= 13 THEN "Champions"
        ELSE IF r >= 3 /\ (f >= 3 /\ m >= 3) THEN "Potential Loyalists"
        ELSE IF r >= 4 /\ (f <= 2 /\ m <= 2) THEN "New Customers"
        ELSE IF r >= 3 /\ (f <= 2 /\ m <= 2) THEN "Promising"
        ELSE IF r <= 2 /\ (f >= 4 /\ m >= 4) THEN "At Risk"
        ELSE IF r <= 2 /\ (f >= 3 /\ m >= 3) THEN "Need Attention"
        ELSE IF r <= 2 /\ (f <= 2 /\ m >= 3) THEN "About to Sleep"
        ELSE IF r <= 2 /\ (f <= 2 /\ m <= 2) THEN "Hibernating"
        ELSE "Cannot Lose"

\* lines 77-100
assign_segment(row) ==
    LET r == row.recency_score
        f == row.frequency_score
        m == row.monetary_score
        rfm == row.rfm_score
    IN  IF rfm >= 13 THEN "Champions"
        ELSE IF r >= 4 /\ (f >= 4 \/ m >= 4) THEN "Loyal Customers"
        ELSE IF r >= 3 /\ (f >= 3 /\ m >= 3) THEN "Potential Loyalists"
        ELSE IF r >= 4 /\ (f <= 2 /\ m <= 2) THEN "New Customers"
        ELSE IF r >= 3 /\ (f <= 2 /\ m <= 2) THEN "Promising"
        ELSE IF r <= 2 /\ (f >= 4 /\ m >= 4) THEN "At Risk"
        ELSE IF r <= 2 /\ (f >= 3 /\ m >= 3) THEN "Need Attention"
        ELSE IF r <= 2 /\ (f <= 2 /\ m >= 3) THEN "About to Sleep"
        ELSE IF r <= 2 /\ (f <= 2 /\ m <= 2) THEN "Hibernating"
        ELSE "Cannot Lose"

InitSegment ==
    /\ pc = "scored"
    /\ df = << >>
    /\ data_dict = NoData
    /\ db = EmptyStore
    /\ tx = EmptyStore
    /\ conn = "closed"
    /\ exc = FALSE
    /\ outcome = "none"
    /\ writes = << >>
    /\ before = EmptyStore
    /\ prevOk = << >>
    /\ nloads = 0
    /\ CleanerIdle /\ ClassifierIdle /\ ScorerIdle /\ SplitterIdle /\ ExecutorIdle
    /\ scores \in { ScoredRow(r, f, m) : r \in ScoreRange, f \in ScoreRange, m \in ScoreRange }
    /\ segment = ""

\* line 102: rfm_df.apply(assign_segment, axis=1), one row
AssignSegment ==
    /\ pc = "scored"
    /\ segment' = assign_segment(scores)
    /\ pc' = "segmented"
    /\ UNCHANGED <<df, data_dict, loaderVars, raw_df, cleaned, recleaned, description,
                   category, scores, customers_df, rfm_df, sql_content, statements, executorVars>>

NextSegment == AssignSegment

SpecSegment == InitSegment /\ [][NextSegment]_vars

(***************************************************************************)
(* Properties of the Segment Assigner, checked under SpecSegment.          *)
(***************************************************************************)
\* the segments in the order of their rules
SegmentNames ==
    <<"Champions", "Loyal Customers", "Potential Loyalists", "New Customers", "Promising",
      "At Risk", "Need Attention", "About to Sleep", "Hibernating", "Cannot Lose">>

\* the n-th rule of the decision list holds of the scores r, f, m
Rule(n, r, f, m) ==
    CASE n = 1 -> r + f + m >= 13
      [] n = 2 -> r >= 4 /\ (f >= 4 \/ m >= 4)
      [] n = 3 -> r >= 3 /\ f >= 3 /\ m >= 3
      [] n = 4 -> r >= 4 /\ f <= 2 /\ m <= 2
      [] n = 5 -> r >= 3 /\ f <= 2 /\ m <= 2
      [] n = 6 -> r <= 2 /\ f >= 4 /\ m >= 4
      [] n = 7 -> r <= 2 /\ f >= 3 /\ m >= 3
      [] n = 8 -> r <= 2 /\ f <= 2 /\ m >= 3
      [] n = 9 -> r <= 2 /\ f <= 2 /\ m <= 2
      [] n = 10 -> TRUE

\* C16: for every (r, f, m) in [1,5]^3, with rfm = r + f + m, the segment is
\* that of the first rule that holds: rfm >= 13 Champions; r >= 4 and (f >= 4
\* or m >= 4) Loyal Customers; r, f, m >= 3 Potential Loyalists; r >= 4 and
\* f, m <= 2 New Customers; r >= 3 and f, m <= 2 Promising; r <= 2 and
\* f, m >= 4 At Risk; r <= 2 and f, m >= 3 Need Attention; r <= 2, f <= 2 and
\* m >= 3 About to Sleep; r, f, m <= 2 Hibernating; otherwise Cannot Lose.
C16_FirstMatchingRule ==
    pc = "segmented" =>
        LET r == scores.recency_score
            f == scores.frequency_score
            m == scores.monetary_score
        IN  /\ scores.rfm_score = r + f + m
            /\ \E n \in DOMAIN SegmentNames :
                  /\ segment = SegmentNames[n]
                  /\ Rule(n, r, f, m)
                  /\ \A k \in 1..(n - 1) : ~Rule(k, r, f, m)

\* scores that satisfy the rule of Loyal Customers too were made Champions
C16_Witness ==
    /\ pc = "segmented"
    /\ segment = "Champions"
    /\ Rule(2, scores.recency_score, scores.frequency_score, scores.monetary_score)

(***************************************************************************)
(* The RFM Scorer, calculate_rfm_scores (customer_segmentation.py, lines   *)
(* 13-107).  Timestamps are counted in half days as in the Transformer,    *)
(* total_spent in hundredths; a score that pandas leaves undefined is NaN. *)
(***************************************************************************)
\* most customers handed to the Scorer
MaxCustomers == 2
\* line 23: pd.to_datetime(datetime.now().date()), midnight of the current day
Today == 1000

\* a row of the customers table
Customer(id, profile) ==
    [customer_id |-> id, last_purchase_date |-> profile[1],
     total_purchases |-> profile[2], total_spent |-> profile[3]]

\* (last_purchase_date, total_purchases, total_spent) of the customers: a
\* purchase at noon today, no known purchase date, then purchases 0, 7, 8, 30,
\* 31, 90, 91, 180, 181 and 2 days ago with counts and amounts on both sides
\* of the thresholds, and a purchase seven and a half days ago
Profiles ==
    { <<Today + 1, 1, 500>>, <<NaT, 1, 500>>, <<Today, 0, 0>>,
      <<Today - 14, 1, 1000>>, <<Today - 16, 2, 1001>>, <<Today - 60, 2, 5000>>,
      <<Today - 62, 3, 5001>>, <<Today - 180, 5, 10000>>, <<Today - 182, 6, 10001>>,
      <<Today - 360, 10, 50000>>, <<Today - 362, 11, 50001>>, <<Today - 4, 12, 80000>>,
      <<Today - 15, 1, 1000>> }

\* the customers tables: customer ids are the positions
CustomerFrames ==
    { [i \in DOMAIN ps |-> Customer(i, ps[i])] : ps \in SeqsUpTo(Profiles, MaxCustomers) }

\* a value of a numeric column, or the missing value
Cell(x) == [nan |-> FALSE, x |-> x]
NaNCell == [nan |-> TRUE, x |-> 0]

\* line 24: (current_date - last_purchase_date).dt.days, the whole days of
\* the difference rounded down; NaT gives NaN
recency_days(customers) ==
    [i \in DOMAIN customers |->
        IF customers[i].last_purchase_date = NaT THEN NaNCell
        ELSE Cell((Today - customers[i].last_purchase_date) \div TicksPerDay)]

\* Series.clip(lower=low) of a column without missing values
clip(customers, name, low) ==
    [i \in DOMAIN customers |->
        Cell(IF customers[i][name] < low THEN low ELSE customers[i][name])]

\* the values of a column that are not missing, in ascending order
SortedValues(col) ==
    LET present == SelectSeq(col, LAMBDA c : ~c.nan)
    IN  SortSeq([i \in DOMAIN present |-> present[i].x], LAMBDA a, b : a < b)

\* five times the k-th quintile of a column (linear interpolation between
\* the two nearest values, as Series.quantile does)
QuantileEdge(col, k) ==
    LET xs == SortedValues(col)
        pos == (Len(xs) - 1) * k
        j == pos \div 5
        rest == pos % 5
    IN  IF rest = 0 THEN 5 * xs[j + 1]
        ELSE 5 * xs[j + 1] + rest * (xs[j + 2] - xs[j + 1])

\* pd.qcut(q=5, labels of length 5, duplicates='drop') goes through only when
\* the six bin edges are distinct; otherwise edges are dropped, the five
\* labels no longer fit and it raises ValueError
FiveBuckets(col) ==
    /\ SortedValues(col) # << >>
    /\ \A k \in 0..4 : QuantileEdge(col, k) < QuantileEdge(col, k + 1)

\* pd.qcut: the label of the first bucket whose right edge is not below the
\* value; a missing value stays missing
qcut(col, labels) ==
    [i \in DOMAIN col |->
        IF col[i].nan THEN NaN
        ELSE labels[Min({ k \in 1..5 : 5 * col[i].x <= QuantileEdge(col, k) })]]

\* a pd.cut whose bins are closed on the left
cut_left_closed(col, bins, labels) ==
    [i \in DOMAIN col |->
        IF col[i].nan \/ col[i].x < bins[1] THEN NaN
        ELSE labels[Max({ k \in DOMAIN bins : bins[k] <= col[i].x })]]

\* pd.cut(bins=[b1, ..., b5, inf], include_lowest=True): bins closed on the
\* right, the first one on both sides; a value below b1 falls in no bin
cut(col, bins, labels) ==
    [i \in DOMAIN col |->
        IF col[i].nan \/ col[i].x < bins[1] THEN NaN
        ELSE IF col[i].x = bins[1] THEN labels[1]
        ELSE labels[Max({ k \in DOMAIN bins : bins[k] < col[i].x })]]

\* lines 27-70: try pd.qcut, except ValueError pd.cut with the fixed bins
score(col, labels, bins) ==
    IF FiveBuckets(col) THEN qcut(col, labels) ELSE cut(col, bins, labels)

\* lines 27-40
recency_score(customers) ==
    score(recency_days(customers), <<5, 4, 3, 2, 1>>, <<0, 7, 30, 90, 180>>)

\* lines 42-55
frequency_score(customers) ==
    score(clip(customers, "total_purchases", 1), <<1, 2, 3, 4, 5>>, <<0, 1, 2, 5, 10>>)

\* lines 57-70 (amounts in hundredths)
monetary_score(customers) ==
    score(clip(customers, "total_spent", 1), <<1, 2, 3, 4, 5>>,
          <<0, 1000, 5000, 10000, 50000>>)

\* lines 13-107.  iloc[0] of a table without rows raises IndexError (line
\* 18); astype(int) of a column holding NaN raises ValueError (line 73)
calculate_rfm_scores(customers) ==
    LET r == recency_score(customers)
        f == frequency_score(customers)
        m == monetary_score(customers)
    IN  IF customers = << >> THEN [rows |-> << >>, error |-> "IndexError"]
        ELSE IF \E i \in DOMAIN customers : r[i] = NaN \/ f[i] = NaN \/ m[i] = NaN
        THEN [rows |-> << >>, error |-> "ValueError"]
        ELSE [rows |->
                 [i \in DOMAIN customers |->
                     LET row == ScoredRow(r[i], f[i], m[i])
                     IN  [customer_id |-> customers[i].customer_id,
                          recency_score |-> row.recency_score,
                          frequency_score |-> row.frequency_score,
                          monetary_score |-> row.monetary_score,
                          rfm_score |-> row.rfm_score,
                          segment |-> assign_segment(row)]],
              error |-> "none"]

InitScore ==
    /\ pc = "customers"
    /\ df = << >>
    /\ data_dict = NoData
    /\ db = EmptyStore
    /\ tx = EmptyStore
    /\ conn = "closed"
    /\ exc = FALSE
    /\ outcome = "none"
    /\ writes = << >>
    /\ before = EmptyStore
    /\ prevOk = << >>
    /\ nloads = 0
    /\ CleanerIdle /\ ClassifierIdle /\ SegmentIdle /\ SplitterIdle /\ ExecutorIdle
    /\ customers_df \in CustomerFrames
    /\ rfm_df = NotCalled

\* perform_rfm_analysis, line 206: rfm_df = calculate_rfm_scores(customers_df)
Score ==
    /\ pc = "customers"
    /\ rfm_df' = calculate_rfm_scores(customers_df)
    /\ pc' = "rfm_scored"
    /\ UNCHANGED <<df, data_dict, loaderVars, raw_df, cleaned, recleaned, description,
                   category, scores, segment, customers_df, sql_content, statements, executorVars>>

NextScore == Score

SpecScore == InitScore /\ [][NextScore]_vars

(***************************************************************************)
(* Properties of the RFM Scorer, checked under SpecScore.                  *)
(***************************************************************************)
\* C17: every row calculate_rfm_scores returns, on the quantile path or the
\* fallback path and for any set of customers, has its three scores in 1..5
\* and rfm_score equal to their sum.
C17_ScoresInRangeAndSummed ==
    \A i \in DOMAIN rfm_df.rows :
        LET row == rfm_df.rows[i]
        IN  /\ row.recency_score \in 1..5
            /\ row.frequency_score \in 1..5
            /\ row.monetary_score \in 1..5
            /\ row.rfm_score = row.recency_score + row.frequency_score + row.monetary_score

\* rows were returned with recency scored by quantiles and frequency by the
\* fixed thresholds
C17_Witness ==
    /\ pc = "rfm_scored"
    /\ rfm_df.rows # << >>
    /\ FiveBuckets(recency_days(customers_df))
    /\ ~FiveBuckets(clip(customers_df, "total_purchases", 1))

\* some dimension of the table cannot be cut into five quantile buckets
SomeFallback(customers) ==
    \/ ~FiveBuckets(recency_days(customers))
    \/ ~FiveBuckets(clip(customers, "total_purchases", 1))
    \/ ~FiveBuckets(clip(customers, "total_spent", 1))

\* C18: whenever a dimension cannot be cut into five distinct quantile
\* buckets (a single customer in particular) the Scorer falls back to the
\* fixed thresholds, and the fallback never fails: every customer, each with
\* a last purchase date, gets scores in 1..5 and no error surfaces.
C18_FallbackNeverFails ==
    ( /\ pc = "rfm_scored"
      /\ customers_df # << >>
      /\ \A i \in DOMAIN customers_df : customers_df[i].last_purchase_date # NaT
      /\ SomeFallback(customers_df) ) =>
        /\ rfm_df.error = "none"
        /\ Len(rfm_df.rows) = Len(customers_df)
        /\ \A i \in DOMAIN rfm_df.rows :
              /\ rfm_df.rows[i].recency_score \in 1..5
              /\ rfm_df.rows[i].frequency_score \in 1..5
              /\ rfm_df.rows[i].monetary_score \in 1..5

\* the recency score of the fixed thresholds, for d >= 0 days
RecencyThresholdScore(d) ==
    IF d <= 7 THEN 5 ELSE IF d <= 30 THEN 4 ELSE IF d <= 90 THEN 3
    ELSE IF d <= 180 THEN 2 ELSE 1

\* the frequency score of the fixed thresholds
FrequencyThresholdScore(n) ==
    IF n <= 1 THEN 1 ELSE IF n <= 2 THEN 2 ELSE IF n <= 5 THEN 3
    ELSE IF n <= 10 THEN 4 ELSE 5

\* the monetary score of the fixed thresholds, the amount in hundredths
MonetaryThresholdScore(a) ==
    IF a <= 10 * 100 THEN 1 ELSE IF a <= 50 * 100 THEN 2 ELSE IF a <= 100 * 100 THEN 3
    ELSE IF a <= 500 * 100 THEN 4 ELSE 5

\* C19: on the fallback path the scores are those of the fixed thresholds:
\* recency_days [0,7] 5, (7,30] 4, (30,90] 3, (90,180] 2, above 180 1;
\* total_purchases (at least 1) [0,1] 1, (1,2] 2, (2,5] 3, (5,10] 4, above 10
\* 5; total_spent (at least 0.01) [0,10] 1, (10,50] 2, (50,100] 3,
\* (100,500] 4, above 500 5.
C19_FallbackThresholds ==
    (pc = "rfm_scored" /\ rfm_df.error = "none") =>
        \A i \in DOMAIN rfm_df.rows :
            LET c == customers_df[i]
                row == rfm_df.rows[i]
                days == (Today - c.last_purchase_date) \div TicksPerDay
            IN  /\ ~FiveBuckets(recency_days(customers_df)) =>
                      /\ days >= 0
                      /\ row.recency_score = RecencyThresholdScore(days)
                /\ ~FiveBuckets(clip(customers_df, "total_purchases", 1)) =>
                      row.frequency_score = FrequencyThresholdScore(c.total_purchases)
                /\ ~FiveBuckets(clip(customers_df, "total_spent", 1)) =>
                      row.monetary_score = MonetaryThresholdScore(c.total_spent)

\* a single customer whose three values lie on a threshold was scored
C19_Witness ==
    /\ pc = "rfm_scored"
    /\ rfm_df.error = "none"
    /\ Len(customers_df) = 1
    /\ customers_df[1].last_purchase_date = Today - 7 * TicksPerDay
    /\ customers_df[1].total_spent = 10 * 100
    /\ rfm_df.rows[1].recency_score = 5
    /\ rfm_df.rows[1].monetary_score = 1


(***************************************************************************)
(* The Quoted-Statement Splitter of execute_sql_file (db_utils.py, lines   *)
(* 111-133), run on the text that is left when the comments are removed.   *)
(* A text is the sequence of its characters.                               *)
(***************************************************************************)
\* longest script made of the characters of Chars
MaxScriptLen == 5

\* an ordinary character, the delimiter, the two quote characters and the
\* backslash
Chars == {"a", ";", "'", "\"", "\\"}

\* the script INSERT INTO t VALUES ('a;b');
InsertScript ==
    <<"I", "N", "S", "E", "R", "T", " ", "I", "N", "T", "O", " ", "t",
      " ", "V", "A", "L", "U", "E", "S", " ", "(", "'", "a", ";",
      "b", "'", ")", ";">>

\* two statements: a string in single quotes that holds a semicolon, then a
\* string in double quotes that holds a single quote and a semicolon
TwoStatementsScript ==
    <<"'", "a", ";", "a", "'", ";", "\"", "'", ";", "\"", ";">>

\* the texts handed to the splitter
Scripts == SeqsUpTo(Chars, MaxScriptLen) \cup {InsertScript, TwoStatementsScript}

\* lines 112-114: no statement yet, outside a string (string_delimiter = None)
SplitStart ==
    [statements |-> << >>, statement_parts |-> << >>, in_string |-> FALSE,
     string_delimiter |-> "None"]

\* a loop body that ends a statement at every semicolon
SplitStepAtEverySemicolon(s, char) ==
    LET parts == Append(s.statement_parts, char)
    IN  IF char = ";"
        THEN [s EXCEPT !.statements = Append(@, parts), !.statement_parts = << >>]
        ELSE [s EXCEPT !.statement_parts = parts]

\* a loop body that leaves the delimiter out of the statement it ends
SplitStepWithoutDelimiter(s, char) ==
    LET quote == char \in {"\"", "'"}
        opens == quote /\ ~s.in_string
        closes == quote /\ s.in_string /\ char = s.string_delimiter
        in_string == IF opens THEN TRUE ELSE IF closes THEN FALSE ELSE s.in_string
        string_delimiter == IF opens THEN char ELSE s.string_delimiter
        parts == Append(s.statement_parts, char)
    IN  IF char = ";" /\ ~in_string
        THEN [statements |-> Append(s.statements, s.statement_parts),
              statement_parts |-> << >>,
              in_string |-> in_string, string_delimiter |-> string_delimiter]
        ELSE [statements |-> s.statements, statement_parts |-> parts,
              in_string |-> in_string, string_delimiter |-> string_delimiter]

\* a loop body that takes a quote character after a backslash for an escaped
\* quote, which neither opens nor closes a string
SplitStepWithEscapes(s, char) ==
    LET escaped == s.statement_parts # << >>
                   /\ s.statement_parts[Len(s.statement_parts)] = "\\"
        quote == char \in {"\"", "'"} /\ ~escaped
        opens == quote /\ ~s.in_string
        closes == quote /\ s.in_string /\ char = s.string_delimiter
        in_string == IF opens THEN TRUE ELSE IF closes THEN FALSE ELSE s.in_string
        string_delimiter == IF opens THEN char ELSE s.string_delimiter
        parts == Append(s.statement_parts, char)
    IN  IF char = ";" /\ ~in_string
        THEN [statements |-> Append(s.statements, parts), statement_parts |-> << >>,
              in_string |-> in_string, string_delimiter |-> string_delimiter]
        ELSE [statements |-> s.statements, statement_parts |-> parts,
              in_string |-> in_string, string_delimiter |-> string_delimiter]

\* lines 116-128: the body of the loop for one character
SplitStep(s, char) ==
    LET quote == char \in {"\"", "'"}
        opens == quote /\ ~s.in_string
        closes == quote /\ s.in_string /\ char = s.string_delimiter
        in_string == IF opens THEN TRUE ELSE IF closes THEN FALSE ELSE s.in_string
        string_delimiter == IF opens THEN char ELSE s.string_delimiter
        parts == Append(s.statement_parts, char)
    IN  IF char = ";" /\ ~in_string
        THEN [statements |-> Append(s.statements, parts), statement_parts |-> << >>,
              in_string |-> in_string, string_delimiter |-> string_delimiter]
        ELSE [statements |-> s.statements, statement_parts |-> parts,
              in_string |-> in_string, string_delimiter |-> string_delimiter]

RECURSIVE SplitLoop(_, _)
\* line 116: for char in sql_content
SplitLoop(s, text) ==
    IF text = << >> THEN s ELSE SplitLoop(SplitStep(s, Head(text)), Tail(text))

\* lines 131-133: the text after the last delimiter is added as the last
\* statement
AddLastStatement(s) ==
    IF s.statement_parts # << >> THEN Append(s.statements, s.statement_parts)
    ELSE s.statements

\* lines 111-133: the statements of a text
split_statements(text) == AddLastStatement(SplitLoop(SplitStart, text))

InitSplit ==
    /\ pc = "script"
    /\ df = << >>
    /\ data_dict = NoData
    /\ db = EmptyStore
    /\ tx = EmptyStore
    /\ conn = "closed"
    /\ exc = FALSE
    /\ outcome = "none"
    /\ writes = << >>
    /\ before = EmptyStore
    /\ prevOk = << >>
    /\ nloads = 0
    /\ CleanerIdle /\ ClassifierIdle /\ SegmentIdle /\ ScorerIdle /\ ExecutorIdle
    /\ sql_content \in Scripts
    /\ statements = << >>

\* execute_sql_file, lines 111-133
Split ==
    /\ pc = "script"
    /\ statements' = split_statements(sql_content)
    /\ pc' = "split"
    /\ UNCHANGED <<df, data_dict, loaderVars, raw_df, cleaned, recleaned, description,
                   category, scores, segment, customers_df, rfm_df, sql_content,
                   executorVars>>

NextSplit == Split

SpecSplit == InitSplit /\ [][NextSplit]_vars

(***************************************************************************)
(* Properties of the Splitter, checked under SpecSplit.                    *)
(***************************************************************************)
RECURSIVE Concat(_)
\* the texts of ss one after the other
Concat(ss) == IF ss = << >> THEN << >> ELSE Head(ss) \o Concat(Tail(ss))

RECURSIVE InLiteral(_, _, _)
\* position p of the text lies inside a string literal, the text read from
\* position from on, outside any literal: a literal runs from a quote
\* character to the next occurrence of the same character, or to the end of the
\* text when there is none
InLiteral(text, from, p) ==
    IF from >= p THEN FALSE
    ELSE IF text[from] \in {"'", "\""}
    THEN LET closing == { j \in (from + 1)..Len(text) : text[j] = text[from] }
         IN  IF closing = {} \/ p <= Min(closing) THEN TRUE
             ELSE InLiteral(text, Min(closing) + 1, p)
    ELSE InLiteral(text, from + 1, p)

\* the position in the script of the last character of the k-th statement
EndOf(k) == Len(Concat(SubSeq(statements, 1, k)))

\* C20: the Splitter never ends a statement at a ';' inside a single- or
\* double-quoted string literal; INSERT INTO t VALUES ('a;b'); is emitted as
\* one statement; the statements are emitted in the order of the script.
C20_NoSplitInsideLiteral ==
    pc = "split" =>
        /\ Concat(statements) = sql_content
        /\ \A k \in DOMAIN statements :
              \/ /\ sql_content[EndOf(k)] = ";"
                 /\ ~InLiteral(sql_content, 1, EndOf(k))
              \/ k = Len(statements) /\ EndOf(k) = Len(sql_content)
        /\ sql_content = InsertScript => statements = <<InsertScript>>

\* two statements, each with a semicolon in its string, were split at the
\* two semicolons outside the strings
C20_Witness ==
    /\ pc = "split"
    /\ sql_content = TwoStatementsScript
    /\ statements = <<SubSeq(sql_content, 1, 6), SubSeq(sql_content, 7, 11)>>


\* the positions of the script at which a statement ends
StatementEnds == { EndOf(k) : k \in DOMAIN statements }

\* C21: quote tracking has two states and remembers the opening quote: inside
\* a string only the quote character that opened it leads outside again, the
\* other quote character is ordinary text, and a quote after a backslash
\* closes the string like any other matching quote.  So a ';' ends a statement
\* exactly when it lies outside every literal, a literal being the text from a
\* quote character to the next occurrence of the same character (the end of
\* the script ends the last statement wherever it lies).
C21_QuoteTracking ==
    pc = "split" =>
        \A p \in DOMAIN sql_content :
            sql_content[p] = ";" =>
                /\ ~InLiteral(sql_content, 1, p) => p \in StatementEnds
                /\ p \in StatementEnds /\ p < Len(sql_content)
                      => ~InLiteral(sql_content, 1, p)

\* the script '\';a: the quote after the backslash closed the string, and the
\* semicolon after it ended the first statement
C21_Witness ==
    /\ pc = "split"
    /\ sql_content = <<"'", "\\", "'", ";", "a">>
    /\ statements = <<SubSeq(sql_content, 1, 4), <<"a">>>>


\* the position of the last ';' of the script outside every literal, 0 when
\* there is none
LastDelimiter ==
    Max({0} \cup { p \in DOMAIN sql_content :
                     sql_content[p] = ";" /\ ~InLiteral(sql_content, 1, p) })

\* C22: the Splitter loses no text: the statements, one after the other, are
\* the script without its comments; the text after the last delimiter, when
\* there is some, is the last statement.
C22_NoTextLost ==
    pc = "split" =>
        /\ Len(Concat(statements)) = Len(sql_content)
        /\ \A p \in DOMAIN sql_content : Concat(statements)[p] = sql_content[p]
        /\ LastDelimiter < Len(sql_content) =>
              /\ statements # << >>
              /\ statements[Len(statements)]
                   = SubSeq(sql_content, LastDelimiter + 1, Len(sql_content))

\* the script a;a: the a after the delimiter is the second statement
C22_Witness ==
    /\ pc = "split"
    /\ sql_content = <<"a", ";", "a">>
    /\ statements = <<<<"a", ";">>, <<"a">>>>


(***************************************************************************)
(* The Script Executor of execute_sql_file (db_utils.py, lines 134-166):   *)
(* the loop over the statements the splitter emitted.  What a statement    *)
(* does is up to the database; the executor sees only how cursor.execute   *)
(* and conn.commit end.                                                    *)
(***************************************************************************)
\* longest list of statements handed to the executor
MaxStatements == 3

\* the characters str.strip removes
Whitespace == {" ", "\n"}

RECURSIVE lstrip(_)
lstrip(text) ==
    IF text # << >> /\ Head(text) \in Whitespace THEN lstrip(Tail(text)) ELSE text

RECURSIVE rstrip(_)
rstrip(text) ==
    IF text # << >> /\ text[Len(text)] \in Whitespace
    THEN rstrip(SubSeq(text, 1, Len(text) - 1)) ELSE text

\* line 135: statement.strip()
strip(text) == rstrip(lstrip(text))

\* the statements a script may hold: two statements, the second after a line
\* break, and the blank text after the last delimiter of a script
StatementTexts == { <<"a", ";">>, <<"\n", "b", ";">>, <<" ", "\n">> }

\* the exceptions of lines 142 and 147-148
DuplicateErrors == {"DuplicateTable", "DuplicateObject"}

\* the elements of a sequence
Range(seq) == { seq[i] : i \in DOMAIN seq }

\* the database was handed statement i and the call ended with result:
\* "executed" (cursor.execute went through), "committed" (conn.commit too),
\* "CommitException", a duplicate error or "Exception" (any other error)
Attempt(i, result) == [index |-> i, result |-> result]

\* the last call of the history ended with result
WithResult(history, result) ==
    [history EXCEPT ![Len(history)] = Attempt(@.index, result)]

InitExecute ==
    /\ pc = "for"
    /\ df = << >>
    /\ data_dict = NoData
    /\ db = EmptyStore
    /\ tx = EmptyStore
    /\ conn = "open"
    /\ exc = FALSE
    /\ outcome = "none"
    /\ writes = << >>
    /\ before = EmptyStore
    /\ prevOk = << >>
    /\ nloads = 0
    /\ CleanerIdle /\ ClassifierIdle /\ SegmentIdle /\ ScorerIdle
    /\ sql_content = << >>
    /\ file_content = << >>
    /\ statements \in SeqsUpTo(StatementTexts, MaxStatements)
    /\ schema = << >>
    /\ pending = << >>
    /\ position = 0
    /\ attempted = << >>
    /\ warnings = << >>
    /\ errors = << >>

\* lines 134-137: the next statement is blank once stripped: continue
SkipBlank ==
    /\ pc = "for"
    /\ position < Len(statements)
    /\ strip(statements[position + 1]) = << >>
    /\ position' = position + 1
    /\ UNCHANGED <<df, data_dict, pc, loaderVars, stageVars, file_content, schema,
                   pending, attempted, warnings, errors>>

\* lines 134-140: the next statement is not blank: enter the try block
TakeStatement ==
    /\ pc = "for"
    /\ position < Len(statements)
    /\ strip(statements[position + 1]) # << >>
    /\ position' = position + 1
    /\ pc' = "execute"
    /\ UNCHANGED <<df, data_dict, loaderVars, stageVars, file_content, schema,
                   pending, attempted, warnings, errors>>

\* a try block in which a duplicate object aborts the script
ExecuteDuplicateAborts ==
    /\ pc = "execute"
    /\ \E e \in DuplicateErrors :
          attempted' = Append(attempted, Attempt(position, e))
    /\ errors' = Append(errors, position)
    /\ pending' = << >>
    /\ outcome' = "raised"
    /\ pc' = "raised"
    /\ UNCHANGED <<df, data_dict, db, tx, conn, exc, writes, before, prevOk, nloads,
                   stageVars, file_content, schema, position, warnings>>

\* line 140: cursor.execute(statement) goes through
ExecuteOk ==
    /\ pc = "execute"
    /\ attempted' = Append(attempted, Attempt(position, "executed"))
    /\ pending' = Append(pending, strip(statements[position]))
    /\ pc' = "commit"
    /\ UNCHANGED <<df, data_dict, loaderVars, stageVars, file_content, schema,
                   position, warnings, errors>>

\* lines 140, 142-151: cursor.execute raises DuplicateTable or DuplicateObject:
\* logger.warning, conn.rollback(), and the loop goes on
ExecuteDuplicate ==
    /\ pc = "execute"
    /\ \E e \in DuplicateErrors :
          /\ attempted' = Append(attempted, Attempt(position, e))
          /\ warnings' = Append(warnings, position)
          /\ pending' = << >>
          /\ pc' = "for"
    /\ UNCHANGED <<df, data_dict, loaderVars, stageVars, file_content, schema,
                   position, errors>>

\* a handler of the other errors that logs, rolls back and goes on
ExecuteFailsAndGoesOn ==
    /\ pc = "execute"
    /\ attempted' = Append(attempted, Attempt(position, "Exception"))
    /\ errors' = Append(errors, position)
    /\ pending' = << >>
    /\ pc' = "for"
    /\ UNCHANGED <<df, data_dict, loaderVars, stageVars, file_content, schema,
                   position, warnings>>

\* lines 140, 152-157, 164-166: cursor.execute raises another exception:
\* logger.error, conn.rollback(), raise; the outer handler logs and raises again
ExecuteFails ==
    /\ pc = "execute"
    /\ attempted' = Append(attempted, Attempt(position, "Exception"))
    /\ errors' = Append(errors, position)
    /\ pending' = << >>
    /\ outcome' = "raised"
    /\ pc' = "raised"
    /\ UNCHANGED <<df, data_dict, db, tx, conn, exc, writes, before, prevOk, nloads,
                   stageVars, file_content, schema, position, warnings>>

\* a loop that leaves the commit to the end of the script
CommitStatementDeferred ==
    /\ pc = "commit"
    /\ pc' = "for"
    /\ UNCHANGED <<df, data_dict, loaderVars, stageVars, file_content, schema,
                   pending, position, attempted, warnings, errors>>

\* line 141: conn.commit()
CommitStatement ==
    /\ pc = "commit"
    /\ schema' = schema \o pending
    /\ pending' = << >>
    /\ attempted' = WithResult(attempted, "committed")
    /\ pc' = "for"
    /\ UNCHANGED <<df, data_dict, loaderVars, stageVars, file_content, position,
                   warnings, errors>>

\* lines 141, 152-157, 164-166: conn.commit() raises
CommitStatementFails ==
    /\ pc = "commit"
    /\ errors' = Append(errors, position)
    /\ pending' = << >>
    /\ attempted' = WithResult(attempted, "CommitException")
    /\ outcome' = "raised"
    /\ pc' = "raised"
    /\ UNCHANGED <<df, data_dict, db, tx, conn, exc, writes, before, prevOk, nloads,
                   stageVars, file_content, schema, position, warnings>>

\* lines 159-162: the loop is over: cursor.close(), and the call returns
FinishScript ==
    /\ pc = "for"
    /\ position = Len(statements)
    /\ outcome' = "returned"
    /\ pc' = "done"
    /\ UNCHANGED <<df, data_dict, db, tx, conn, exc, writes, before, prevOk, nloads,
                   stageVars, executorVars>>

NextExecute ==
    \/ SkipBlank
    \/ TakeStatement
    \/ ExecuteOk
    \/ ExecuteDuplicate
    \/ ExecuteFails
    \/ CommitStatement
    \/ CommitStatementFails
    \/ FinishScript

SpecExecute == InitExecute /\ [][NextExecute]_vars


(***************************************************************************)
(* Properties of the Script Executor, checked under SpecExecute.           *)
(***************************************************************************)
RECURSIVE NonBlankUpTo(_)
\* the indexes up to n of the statements that are not blank, in order
NonBlankUpTo(n) ==
    IF n = 0 THEN << >>
    ELSE IF strip(statements[n]) = << >> THEN NonBlankUpTo(n - 1)
    ELSE Append(NonBlankUpTo(n - 1), n)

\* the indexes of the statements handed to the database, in order
AttemptedIndexes == [j \in DOMAIN attempted |-> attempted[j].index]

\* the texts of the calls of the history that ended with result, in order
RECURSIVE TextsWithResult(_, _)
TextsWithResult(history, result) ==
    IF history = << >> THEN << >>
    ELSE LET rest == TextsWithResult(SubSeq(history, 1, Len(history) - 1), result)
             last == history[Len(history)]
         IN  IF last.result = result
             THEN Append(rest, strip(statements[last.index])) ELSE rest

\* C23: a statement that fails with DuplicateTable or DuplicateObject is logged
\* with a warning and rolled back, the script does not raise because of it, and
\* the loop goes on: as long as no other error occurs every statement that is
\* not blank is handed to the database, up to the end of the script.
C23_DuplicateObjectIsSkipped ==
    /\ \A j \in DOMAIN attempted :
          attempted[j].result \in DuplicateErrors =>
              /\ attempted[j].index \in Range(warnings)
              /\ attempted[j].index \notin Range(errors)
              /\ j = Len(attempted) => pending = << >> /\ outcome # "raised"
    /\ (\A j \in DOMAIN attempted :
            attempted[j].result \in DuplicateErrors \cup {"committed"}) =>
          /\ pc = "for" => AttemptedIndexes = NonBlankUpTo(position)
          /\ position = Len(statements) /\ pc = "for" => ENABLED FinishScript
          /\ pc \in {"for", "execute", "done"}
    /\ pc = "done" => AttemptedIndexes = NonBlankUpTo(Len(statements))

\* the same statement twice: the first was committed, the second raised
\* DuplicateTable, and the script ran to its end
C23_Witness ==
    /\ pc = "done"
    /\ outcome = "returned"
    /\ statements = << <<"a", ";">>, <<"a", ";">>, <<"\n", "b", ";">> >>
    /\ attempted = <<Attempt(1, "committed"), Attempt(2, "DuplicateTable"),
                     Attempt(3, "committed")>>
    /\ warnings = <<2>>

\* C24: a statement that fails with any other error is the last statement
\* handed to the database, and the error goes to the caller.
C24_OtherErrorAborts ==
    \A j \in DOMAIN attempted :
        attempted[j].result \in {"Exception", "CommitException"} =>
            /\ j = Len(attempted)
            /\ outcome = "raised"
            /\ pc = "raised"
            /\ errors = <<attempted[j].index>>
            /\ ~ENABLED NextExecute

\* the first of three statements failed: the other two were never executed
C24_Witness ==
    /\ outcome = "raised"
    /\ Len(statements) = 3
    /\ \A i \in DOMAIN statements : strip(statements[i]) # << >>
    /\ attempted = <<Attempt(1, "Exception")>>

\* C25: statement-level transactions: nothing is left uncommitted when a
\* statement is executed, the store holds exactly the statements that went
\* through, in order, whatever failed before or after them, and a statement
\* that failed left nothing behind.
C25_StatementLevelTransactions ==
    /\ pc = "execute" => pending = << >>
    /\ schema = TextsWithResult(attempted, "committed")
    /\ pending = TextsWithResult(attempted, "executed")
    /\ outcome = "raised" => pending = << >>

\* the script aborted at its third statement and the first two are committed
C25_Witness ==
    /\ outcome = "raised"
    /\ errors = <<3>>
    /\ attempted = <<Attempt(1, "committed"), Attempt(2, "committed"),
                     Attempt(3, "Exception")>>
    /\ schema = <<strip(statements[1]), strip(statements[2])>>


(***************************************************************************)
(* load_rfm_to_database (customer_segmentation.py, lines 150-185), which   *)
(* writes the segments of a batch to the customer_segments table.          *)
(***************************************************************************)
\* longest batch of segment rows handed to one load
MaxSegmentRows == 2

\* the customers that may have a stored segment
SegmentCustomers == {1, 2, 3}

\* line 107: a row of rfm_df
SegmentRow(id, r, f, m) ==
    LET row == ScoredRow(r, f, m)
    IN  [customer_id |-> id, recency_score |-> r, frequency_score |-> f,
         monetary_score |-> m, rfm_score |-> row.rfm_score,
         segment |-> assign_segment(row)]

\* the rows of the batches: every customer as a champion or hibernating
BatchRows ==
    { SegmentRow(id, s, s, s) : id \in SegmentCustomers, s \in {1, 5} }

\* the row an earlier run stored for a customer
StoredRow(id) == SegmentRow(id, 3, 3, 3)

\* the customer_segments tables an earlier run may have left
StoredSegments ==
    { [id \in ids |-> StoredRow(id)] : ids \in SUBSET SegmentCustomers }

\* line 159: DELETE FROM customer_segments
DeleteAllSegments(table, rows) == EmptyTable

\* the statements of the try block, lines 156-175
SegmentLoadSteps == {"rfm_delete", "rfm_insert", "rfm_commit"}

InitSegmentLoad ==
    /\ pc = "load_rfm"
    /\ df = << >>
    /\ data_dict = NoData
    /\ \E stored \in StoredSegments : db = [EmptyStore EXCEPT !.customer_segments = stored]
    /\ tx = db
    /\ conn = "closed"
    /\ exc = FALSE
    /\ outcome = "none"
    /\ writes = << >>
    /\ before = db
    /\ prevOk = << >>
    /\ nloads = 0
    /\ CleanerIdle /\ ClassifierIdle /\ SegmentIdle /\ SplitterIdle /\ ExecutorIdle
    /\ customers_df = << >>
    /\ \E batch \in SeqsUpTo(BatchRows, MaxSegmentRows) \ {<< >>} :
          rfm_df = [rows |-> batch, error |-> "none"]

\* lines 153-157: the connection and its cursor are opened
LoadRfmConnect ==
    /\ pc = "load_rfm"
    /\ conn' = "open"
    /\ tx' = db
    /\ pc' = "rfm_delete"
    /\ UNCHANGED <<df, data_dict, db, exc, outcome, writes, before, prevOk, nloads,
                   stageVars, executorVars>>

\* lines 153, db_utils.py lines 25-31: psycopg2.connect raises, outside the
\* try block: no connection was opened
LoadRfmConnectFails ==
    /\ pc = "load_rfm"
    /\ outcome' = "raised"
    /\ pc' = "rfm_done"
    /\ UNCHANGED <<df, data_dict, db, tx, conn, exc, writes, before, prevOk, nloads,
                   stageVars, executorVars>>

\* line 159
DeleteSegments ==
    /\ pc = "rfm_delete"
    /\ tx' = [tx EXCEPT !.customer_segments = DeleteAllSegments(@, rfm_df.rows)]
    /\ writes' = Append(writes, "rfm_delete")
    /\ pc' = "rfm_insert"
    /\ UNCHANGED <<df, data_dict, db, conn, exc, outcome, before, prevOk, nloads,
                   stageVars, executorVars>>

\* lines 161-174: execute_many of the upsert, one statement per row
InsertSegments ==
    /\ pc = "rfm_insert"
    /\ tx' = [tx EXCEPT !.customer_segments = UpsertMany(@, "customer_id", rfm_df.rows)]
    /\ writes' = Append(writes, "rfm_insert")
    /\ pc' = "rfm_commit"
    /\ UNCHANGED <<df, data_dict, db, conn, exc, outcome, before, prevOk, nloads,
                   stageVars, executorVars>>

\* line 175: conn.commit()
CommitSegments ==
    /\ pc = "rfm_commit"
    /\ db' = Commit(db, tx)
    /\ writes' = Append(writes, "rfm_commit")
    /\ pc' = "rfm_finally"
    /\ UNCHANGED <<df, data_dict, tx, conn, exc, outcome, before, prevOk, nloads,
                   stageVars, executorVars>>

\* any statement of the try block may raise
SegmentStatementRaises ==
    /\ pc \in SegmentLoadSteps
    /\ exc' = TRUE
    /\ pc' = "rfm_except"
    /\ UNCHANGED <<df, data_dict, db, tx, conn, outcome, writes, before, prevOk, nloads,
                   stageVars, executorVars>>

\* lines 178-181: conn.rollback(); raise
SegmentsExcept ==
    /\ pc = "rfm_except"
    /\ tx' = Rollback(db, tx)
    /\ pc' = "rfm_finally"
    /\ UNCHANGED <<df, data_dict, db, conn, exc, outcome, writes, before, prevOk, nloads,
                   stageVars, executorVars>>

\* lines 183-185: cursor.close(); conn.close(); the call returns or raises
SegmentsFinally ==
    /\ pc = "rfm_finally"
    /\ conn' = "closed"
    /\ outcome' = IF exc THEN "raised" ELSE "returned"
    /\ pc' = "rfm_done"
    /\ UNCHANGED <<df, data_dict, db, tx, exc, writes, before, prevOk, nloads,
                   stageVars, executorVars>>

load_rfm_to_database ==
    \/ LoadRfmConnect
    \/ LoadRfmConnectFails
    \/ DeleteSegments
    \/ InsertSegments
    \/ CommitSegments
    \/ SegmentStatementRaises
    \/ SegmentsExcept
    \/ SegmentsFinally

NextSegmentLoad == load_rfm_to_database

SpecSegmentLoad == InitSegmentLoad /\ [][NextSegmentLoad]_vars

(***************************************************************************)
(* Properties of the segment load, checked under SpecSegmentLoad.          *)
(***************************************************************************)
\* the customers of the batch
BatchCustomers == { rfm_df.rows[i].customer_id : i \in DOMAIN rfm_df.rows }

\* the last row of the batch for a customer
LastRowOf(id) ==
    rfm_df.rows[Max({ i \in DOMAIN rfm_df.rows : rfm_df.rows[i].customer_id = id })]

\* the load went through
SegmentsLoaded == pc = "rfm_done" /\ outcome = "returned"

\* C26: a successful segment load stores for each customer of the batch the
\* row of the batch, one row per customer, and leaves the stored rows of the
\* customers that are not in the batch as they were.
C26_SegmentUpsertByKey ==
    SegmentsLoaded =>
        /\ \A id \in BatchCustomers :
              /\ id \in DOMAIN db.customer_segments
              /\ db.customer_segments[id] = LastRowOf(id)
        /\ \A id \in (DOMAIN before.customer_segments) \ BatchCustomers :
              /\ id \in DOMAIN db.customer_segments
              /\ db.customer_segments[id] = before.customer_segments[id]


(***************************************************************************)
(* perform_rfm_analysis (customer_segmentation.py, lines 187-219), called  *)
(* with a db_config: the customers are read from the store, scored, and    *)
(* their segments loaded.                                                  *)
(***************************************************************************)
\* the customers table that holds the rows of a frame
CustomersTable(frame) == [id \in DOMAIN frame |-> frame[id]]

\* lines 192-202: SELECT ... FROM customers, the rows in key order
SelectCustomers(table) ==
    LET keys == SortKeys({ <<id>> : id \in DOMAIN table })
    IN  [k \in DOMAIN keys |-> table[keys[k][1]]]

InitAnalysis ==
    /\ pc = "analysis"
    /\ df = << >>
    /\ data_dict = NoData
    /\ \E frame \in CustomerFrames :
          \E stored \in {EmptyTable, [id \in DOMAIN frame |-> StoredRow(id)]} :
              db = [EmptyStore EXCEPT !.customers = CustomersTable(frame),
                                      !.customer_segments = stored]
    /\ tx = db
    /\ conn = "closed"
    /\ exc = FALSE
    /\ outcome = "none"
    /\ writes = << >>
    /\ before = db
    /\ prevOk = << >>
    /\ nloads = 0
    /\ StageIdle

\* lines 190-191: the connection of the read is opened
AnalysisConnect ==
    /\ pc = "analysis"
    /\ conn' = "open"
    /\ pc' = "query"
    /\ UNCHANGED <<df, data_dict, db, tx, exc, outcome, writes, before, prevOk, nloads,
                   stageVars, executorVars>>

\* line 191, db_utils.py lines 25-31: psycopg2.connect raises
AnalysisConnectFails ==
    /\ pc = "analysis"
    /\ outcome' = "raised"
    /\ pc' = "rfm_done"
    /\ UNCHANGED <<df, data_dict, db, tx, conn, exc, writes, before, prevOk, nloads,
                   stageVars, executorVars>>

\* line 202: customers_df = execute_query(conn, query)
QueryCustomers ==
    /\ pc = "query"
    /\ customers_df' = SelectCustomers(db.customers)
    /\ pc' = "close"
    /\ UNCHANGED <<df, data_dict, loaderVars, raw_df, cleaned, recleaned, description,
                   category, scores, segment, rfm_df, sql_content, statements,
                   executorVars>>

\* line 202, db_utils.py lines 56-60: pd.read_sql_query raises, execute_query
\* logs and raises again, and perform_rfm_analysis has no handler: line 203 is
\* not reached
QueryFails ==
    /\ pc = "query"
    /\ outcome' = "raised"
    /\ pc' = "rfm_done"
    /\ UNCHANGED <<df, data_dict, db, tx, conn, exc, writes, before, prevOk, nloads,
                   stageVars, executorVars>>

\* line 203: conn.close()
CloseAfterQuery ==
    /\ pc = "close"
    /\ conn' = "closed"
    /\ pc' = "calculate"
    /\ UNCHANGED <<df, data_dict, db, tx, exc, outcome, writes, before, prevOk, nloads,
                   stageVars, executorVars>>

\* lines 210-216: rfm_df = calculate_rfm_scores(customers_df), then
\* load_rfm_to_database(rfm_df, db_config)
CalculateScores ==
    /\ pc = "calculate"
    /\ calculate_rfm_scores(customers_df).error = "none"
    /\ rfm_df' = calculate_rfm_scores(customers_df)
    /\ pc' = "load_rfm"
    /\ UNCHANGED <<df, data_dict, loaderVars, raw_df, cleaned, recleaned, description,
                   category, scores, segment, customers_df, sql_content, statements,
                   executorVars>>

\* line 210: calculate_rfm_scores raises
CalculateRaises ==
    /\ pc = "calculate"
    /\ calculate_rfm_scores(customers_df).error # "none"
    /\ rfm_df' = calculate_rfm_scores(customers_df)
    /\ outcome' = "raised"
    /\ pc' = "rfm_done"
    /\ UNCHANGED <<df, data_dict, db, tx, conn, exc, writes, before, prevOk, nloads,
                   raw_df, cleaned, recleaned, description, category, scores, segment,
                   customers_df, sql_content, statements, executorVars>>

NextAnalysis ==
    \/ AnalysisConnect
    \/ AnalysisConnectFails
    \/ QueryCustomers
    \/ QueryFails
    \/ CloseAfterQuery
    \/ CalculateScores
    \/ CalculateRaises
    \/ load_rfm_to_database

SpecAnalysis == InitAnalysis /\ [][NextAnalysis]_vars

(***************************************************************************)
(* Properties of perform_rfm_analysis, checked under SpecAnalysis.         *)
(***************************************************************************)
\* C27: the store connection is never held across stages: the connection of
\* the Scorer's read is closed when the read is over, and no connection is
\* open when perform_rfm_analysis, the segment load included, has returned or
\* raised.
C27_ConnectionClosedAfterEveryStage ==
    pc \in {"calculate", "load_rfm", "rfm_done"} => conn = "closed"


(***************************************************************************)
(* The removal of comments in execute_sql_file (db_utils.py, lines         *)
(* 108-110), which runs on the text of the file before the splitter: two   *)
(* substitutions on the whole text, line comments first.                   *)
(***************************************************************************)
\* longest script file made of the characters of FileChars
MaxFileLen == 4

\* an ordinary character, the delimiter, a quote and the characters of the
\* comment markers
FileChars == {"a", ";", "'", "-", "\n", "/", "*"}

\* the script '/**/'; whose literal holds a block comment
BlockInLiteralFile == <<"'", "/", "*", "*", "/", "'", ";">>

\* the script 'a--';<newline>a; whose literal ends in a line comment marker
DashesInLiteralFile == <<"'", "a", "-", "-", "'", ";", "\n", "a", ";">>

\* the script a;--a<newline>/*;*/a; with a comment of each kind
CommentedFile ==
    <<"a", ";", "-", "-", "a", "\n", "/", "*", ";", "*", "/", "a", ";">>

\* the texts of the script files
FileTexts ==
    SeqsUpTo(FileChars, MaxFileLen)
        \cup {BlockInLiteralFile, DashesInLiteralFile, CommentedFile}

\* the two characters c and d stand at positions i and i + 1 of the text
At(text, i, c, d) == i + 1 <= Len(text) /\ text[i] = c /\ text[i + 1] = d

RECURSIVE RemoveLineComments(_)
\* line 109: re.sub(r'--.*?\n', '', sql_content): from each -- up to the next
\* line break, the line break included; a -- with no line break after it stays
RemoveLineComments(text) ==
    IF text = << >> THEN << >>
    ELSE LET breaks == { j \in 3..Len(text) : text[j] = "\n" }
         IN  IF At(text, 1, "-", "-") /\ breaks # {}
             THEN RemoveLineComments(SubSeq(text, Min(breaks) + 1, Len(text)))
             ELSE <<Head(text)>> \o RemoveLineComments(Tail(text))

RECURSIVE RemoveBlockComments(_)
\* line 110: re.sub(r'/\*.*?\*/', '', sql_content, flags=re.DOTALL): from each
\* /* up to the next */, line breaks included; a /* with no */ after it stays
RemoveBlockComments(text) ==
    IF text = << >> THEN << >>
    ELSE LET ends == { j \in 3..Len(text) : At(text, j, "*", "/") }
         IN  IF At(text, 1, "/", "*") /\ ends # {}
             THEN RemoveBlockComments(SubSeq(text, Min(ends) + 2, Len(text)))
             ELSE <<Head(text)>> \o RemoveBlockComments(Tail(text))

\* lines 108-110
remove_comments(text) == RemoveBlockComments(RemoveLineComments(text))

InitStrip ==
    /\ pc = "file"
    /\ df = << >>
    /\ data_dict = NoData
    /\ db = EmptyStore
    /\ tx = EmptyStore
    /\ conn = "closed"
    /\ exc = FALSE
    /\ outcome = "none"
    /\ writes = << >>
    /\ before = EmptyStore
    /\ prevOk = << >>
    /\ nloads = 0
    /\ CleanerIdle /\ ClassifierIdle /\ SegmentIdle /\ ScorerIdle
    /\ file_content \in FileTexts
    /\ sql_content = << >>
    /\ statements = << >>
    /\ schema = << >>
    /\ pending = << >>
    /\ position = 0
    /\ attempted = << >>
    /\ warnings = << >>
    /\ errors = << >>

\* lines 95-110: the file is read and its comments are removed
StripComments ==
    /\ pc = "file"
    /\ sql_content' = remove_comments(file_content)
    /\ pc' = "script"
    /\ UNCHANGED <<df, data_dict, loaderVars, raw_df, cleaned, recleaned, description,
                   category, scores, segment, customers_df, rfm_df, statements,
                   executorVars>>

NextStrip == StripComments \/ Split

SpecStrip == InitStrip /\ [][NextStrip]_vars

(***************************************************************************)
(* Properties of the removal of comments, checked under SpecStrip.         *)
(***************************************************************************)
RECURSIVE LiteralsFrom(_, _)
\* the string literals of a script read from position i on, i outside every
\* literal and comment, as pairs of the positions of their quotes: a quote
\* opens a literal that runs to the next quote; -- opens a comment that runs
\* to the end of the line and /* one that runs to the next */; what follows
\* a literal or a comment that is never closed is left out
LiteralsFrom(text, i) ==
    IF i > Len(text) THEN {}
    ELSE IF text[i] = "'"
    THEN LET closing == { j \in (i + 1)..Len(text) : text[j] = "'" }
         IN  IF closing = {} THEN {}
             ELSE {<<i, Min(closing)>>} \cup LiteralsFrom(text, Min(closing) + 1)
    ELSE IF At(text, i, "-", "-")
    THEN LET breaks == { j \in (i + 2)..Len(text) : text[j] = "\n" }
         IN  IF breaks = {} THEN {} ELSE LiteralsFrom(text, Min(breaks) + 1)
    ELSE IF At(text, i, "/", "*")
    THEN LET ends == { j \in (i + 2)..Len(text) : At(text, j, "*", "/") }
         IN  IF ends = {} THEN {} ELSE LiteralsFrom(text, Min(ends) + 2)
    ELSE LiteralsFrom(text, i + 1)

\* the text sub occurs in the text, its characters next to each other
Occurs(sub, text) ==
    \E k \in 0..(Len(text) - Len(sub)) : SubSeq(text, k + 1, k + Len(sub)) = sub

\* the end of the line on which position j stands
EndOfLine(text, j) ==
    Min({ k \in j..Len(text) : text[k] = "\n" } \cup {Len(text)})

\* the text from position i to the end of the line of position j holds no
\* comment outside a literal
NoCommentAfter(text, i, j) ==
    \A k \in (j + 1)..EndOfLine(text, j) :
        ~At(text, k, "-", "-") /\ ~At(text, k, "/", "*")

\* C29: the removal of comments leaves the string literals alone: every
\* string literal of the script file, one that holds -- or /* included, stands
\* unchanged in one of the statements, and so does the text after it on its
\* line.
C29_LiteralsSurviveCommentRemoval ==
    pc = "split" =>
        \A lit \in LiteralsFrom(file_content, 1) :
            /\ \E k \in DOMAIN statements :
                  Occurs(SubSeq(file_content, lit[1], lit[2]), statements[k])
            /\ NoCommentAfter(file_content, lit[1], lit[2]) =>
                  Occurs(SubSeq(file_content, lit[1], EndOfLine(file_content, lit[2])),
                         Concat(statements))

====
